---- MODULE Spec2Model ----
(***************************************************************************)
(* Model of pisco: the playback display controller (polling tick, album    *)
(* art, backlight) of user_interface/graphical_user_interface.py and the   *)
(* cached image resolver of input_output/http_image.py.                    *)
(***************************************************************************)
EXTENDS Integers, Sequences, FiniteSets, TLC

\* ------------------------------------------------------------------------
\* Bounds of the model
\* ------------------------------------------------------------------------

\* Largest number of events waiting in the AV transport event queue.
MaxQueue == 2

\* Number of most recent direct get_photo_image calls that are remembered.
MaxCalls == 3

\* Largest width and height of the images and boxes that are resized, next
\* to the sizes of Sources and Boxes.
MaxSide == 6

\* Largest number of Sonos favorites of the device.
MaxFavorites == 3

\* ------------------------------------------------------------------------
\* Values
\* ------------------------------------------------------------------------

\* A URI is a sequence of tokens; its first token is its prefix.
DeviceBase == <<"http:", "//192.168.0.2:1400">>

RelativeArt1 == <<"/art/1.jpg">>

AbsoluteArt1 == DeviceBase \o RelativeArt1

AbsoluteArt2 == <<"https:", "//cdn.example", "/art/2.jpg">>

FileArt == <<"file:", "///art/3.jpg">>

\* None, and also the empty string: the falsy values of `if absolute_uri`.
NoUri == <<>>

\* hasattr(track_meta_data, "album_art_uri") is has_album_art_uri.
Event(state, has, ref) ==
    [transport_state |-> state, has_album_art_uri |-> has,
     album_art_uri |-> ref]

\* The AV transport events the device sends: both playing states with and
\* without album art (two references that name the same image, and a
\* different one), and states that are not playing, with and without it.
Events ==
    {Event("PLAYING", TRUE, RelativeArt1),
     Event("PLAYING", TRUE, AbsoluteArt2),
     Event("PLAYING", FALSE, NoUri),
     Event("TRANSITIONING", TRUE, AbsoluteArt1),
     Event("TRANSITIONING", FALSE, NoUri),
     Event("PAUSED_PLAYBACK", TRUE, RelativeArt1),
     Event("STOPPED", FALSE, NoUri)}

NoEvent == Event("", FALSE, NoUri)

\* Images a server may deliver: width, height and colour mode.
Sources ==
    {[width |-> 600, height |-> 300, mode |-> "RGBA"],
     [width |-> 300, height |-> 600, mode |-> "RGB"]}

NoSource == [width |-> 0, height |-> 0, mode |-> ""]

\* What urlopen and the payload do in one download: an image, bytes that
\* are no image, or a network error.
Responses ==
    [kind : {"image"}, image : Sources]
    \cup
    {[kind |-> "garbage", image |-> NoSource],
     [kind |-> "URLError", image |-> NoSource]}

\* Window sizes the label is built with (max_width x max_height).
Boxes == {<<240, 320>>, <<320, 320>>}

\* The empty string of `self.config(image="")`: no image.
NoImage == [uri |-> NoUri, width |-> 0, height |-> 0, mode |-> ""]

\* current_transport_state as the device reports it.
TransportStates == {"PLAYING", "PAUSED_PLAYBACK", "STOPPED", "TRANSITIONING"}

\* resources[0].uri of the favorites of the device, in their order.
FavoriteUris ==
    <<"x-sonosapi-radio:1", "x-rincon-cpcontainer:2", "x-file-cifs:3",
      "x-sonosapi-stream:4", "x-rincon-playlist:5", "x-sonosapi-hls:6",
      "x-sonos-http:7", "x-rincon-mp3radio:8", "x-sonos-spotify:9">>

\* The i-th Sonos favorite of the device: a DidlObject with
\* resource_meta_data, a DidlObject without, or an item that is no
\* DidlObject, in turn.
Favorite(i) ==
    [didl |-> i % 3 # 0, has_resource_meta_data |-> i % 3 = 1,
     uri |-> IF i \in 1..Len(FavoriteUris) THEN FavoriteUris[i] ELSE ""]

\* What get_sonos_favorites returns: the first n favorites.
FavoriteLists ==
    {[i \in 1..n |-> Favorite(i)] : n \in 0..MaxFavorites}

\* The keysyms of the digit keys.
DigitKeys == <<"0", "1", "2", "3", "4", "5", "6", "7", "8", "9">>

\* The keysyms that are pressed: the digits up to one past the favorites,
\* the keys of the handler and a key without an action.
KeySymbols ==
    {DigitKeys[i] : i \in 1..(MaxFavorites + 1)}
    \cup {"Left", "XF86AudioRewind", "Right", "XF86AudioForward", "Return",
          "XF86AudioPlay", "XF86AudioStop", "XF86AudioMute", "Up",
          "XF86AudioRaiseVolume", "Down", "XF86AudioLowerVolume", "a"}

\* A command sent to the device.
Command(name, arguments) == [name |-> name, arguments |-> arguments]

\* No key was pressed yet.
NoKeyPress ==
    [keysym |-> "", raised |-> "", logged |-> "", read |-> "",
     queries |-> <<>>, commands |-> <<>>]

\* Value of the max_brightness file of the sysfs backlight.
MaxBrightnessValues == {50}

\* What is found at a path: nothing, a directory, a regular file, or a
\* regular file that the process may neither read nor write.
PathKinds == {"absent", "directory", "file", "protected"}

\* A backlight directory with its two files.
Directory(d, b, m) ==
    [configured |-> TRUE, path |-> d, brightness |-> b, max_brightness |-> m]

\* A directory cannot be found without the directory itself.
Directories ==
    {Directory("directory", b, m) : b \in PathKinds, m \in PathKinds}
    \cup {Directory("absent", "absent", "absent"),
          Directory("file", "absent", "absent")}

\* backlight_directory is None.
NoDirectory ==
    [configured |-> FALSE, path |-> "absent", brightness |-> "absent",
     max_brightness |-> "absent"]

\* What the files do in one call of activate or deactivate: the read of
\* max_brightness raises OSError, the write of brightness does, or both
\* succeed.
IoOutcomes == {"ok", "read_fails", "write_fails"}

VARIABLES
    queue,          \* _av_transport_event_queue
    display,        \* image option of the label
    cache,          \* entries of the lru_cache of get_photo_image
    max_width,      \* _max_width of the label
    max_height,     \* _max_height of the label
    brightness,     \* content of the brightness file
    max_brightness, \* content of the max_brightness file
    scheduled,      \* number of pending `after` callbacks
    uiRunning,      \* the Tk main loop is running
    lastEvent,      \* event most recently taken from the queue
    lastResolved,   \* URI of the most recent successful lookup of a tick
    outcome,        \* how the most recent tick ended
    ops,            \* calls made by the most recent tick, in order
    calls,          \* most recent direct get_photo_image calls
    phase,          \* position of the main thread in run_application
    subscription,   \* state of the AV transport subscription
    listener,       \* state of the event listener of the subscription
    teardown,       \* calls made on the subscription to end the session
    pending,        \* signal tripped for the main thread, not yet handled
    handled,        \* signal whose handler ran most recently
    handler,        \* handler of SIGINT and SIGTERM
    exception,      \* exception that is leaving or has left the with block
    renewFailed,    \* the autorenewal of the subscription has failed
    resized,        \* the most recent call of _resize_image and its result
    flattened,      \* the call of _remove_alpha_channel and its result
    directory,      \* the configured backlight directory and its files
    backlight,      \* the backlight that get_backlight returned
    io,             \* what the files did in the last backlight call
    favorites,      \* the Sonos favorites of the device
    keypress,       \* the most recent key press and what its handler did
    discovered      \* what soco.discovery.by_name returned

\* The state of the session and of the main thread around the main loop.
application == <<phase, subscription, listener, teardown, pending, handled,
                 handler, exception, renewFailed>>

\* The operations that are followed on their own.
standalone == <<flattened, directory, backlight, io, favorites, keypress,
                discovered>>

vars == <<queue, display, cache, max_width, max_height, brightness,
          max_brightness, scheduled, uiRunning, lastEvent, lastResolved,
          outcome, ops, calls, application, resized, standalone>>

\* ------------------------------------------------------------------------
\* input_output/http_image.py
\* ------------------------------------------------------------------------

\* A cache that keeps two results.
MaxSizeTwo == 1 + 1

\* The maxsize of the lru_cache that wraps get_photo_image.
MaxSize == 1

\* A conversion to an integer that cuts the fraction off.
RoundDown(n, d) == n \div d

\* Python's round(n / d) for n >= 0 and d > 0: ties go to the even integer.
Round(n, d) ==
    LET q == n \div d
        r == n % d
    IN  IF 2 * r < d THEN q
        ELSE IF 2 * r > d THEN q + 1
        ELSE IF q % 2 = 0 THEN q ELSE q + 1

StartsWithSupportedPrefix(absolute_uri) ==
    /\ Len(absolute_uri) > 0
    /\ absolute_uri[1] \in {"http:", "https:"}

\* A download that opens every URI, whatever its prefix.
download_resource_unchecked(absolute_uri, response) ==
    IF response.kind = "URLError"
    THEN [raised |-> "URLError", ops |-> <<"urlopen">>, content |-> response]
    ELSE [raised |-> "", ops |-> <<"urlopen">>, content |-> response]

\* _download_resource: a ValueError before any I/O for an unsupported
\* prefix, otherwise one urlopen whose error propagates.
download_resource(absolute_uri, response) ==
    IF ~StartsWithSupportedPrefix(absolute_uri)
    THEN [raised |-> "ValueError", ops |-> <<>>, content |-> response]
    ELSE IF response.kind = "URLError"
    THEN [raised |-> "URLError", ops |-> <<"urlopen">>, content |-> response]
    ELSE [raised |-> "", ops |-> <<"urlopen">>, content |-> response]

\* _to_image: PIL.Image.open raises for bytes that are no image.
to_image(content) ==
    IF content.kind = "image"
    THEN [raised |-> "", image |-> content.image]
    ELSE [raised |-> "UnidentifiedImageError", image |-> NoSource]

\* Modes of PIL images: bilevel, greyscale, palette, true colour and
\* CMYK, and the modes that add an alpha band to them.
ImageModes == {"1", "L", "LA", "P", "PA", "RGB", "RGBA", "RGBa", "CMYK"}

\* The bands of the mode include an alpha band ("A" or "a").
HasAlphaChannel(mode) == mode \in {"LA", "PA", "RGBA", "RGBa"}

\* _remove_alpha_channel: an RGBA image is pasted onto a white RGB image
\* of its size; an image of any other mode is returned as it is.
remove_alpha_channel(image) ==
    IF image.mode # "RGBA"
    THEN image
    ELSE [image EXCEPT !.mode = "RGB"]

\* No image was flattened yet.
NoFlatten == [image |-> NoSource, result |-> NoSource]

\* A resize that takes the other dimension as the constrained one.
resize_image_inverted(image, maxw, maxh) ==
    IF maxw * image.height > maxh * image.width
    THEN [image EXCEPT !.width = maxw,
                       !.height = Round(image.height * maxw, image.width)]
    ELSE [image EXCEPT !.width = Round(image.width * maxh, image.height),
                       !.height = maxh]

\* _resize_image: the new size of the image; the mode is kept.
resize_image(image, maxw, maxh) ==
    IF maxw * image.height <= maxh * image.width
    THEN [image EXCEPT !.width = maxw,
                       !.height = Round(image.height * maxw, image.width)]
    ELSE [image EXCEPT !.width = Round(image.width * maxh, image.height),
                       !.height = maxh]

\* No image was resized yet.
NoResize ==
    [image |-> NoSource, max_width |-> 0, max_height |-> 0,
     result |-> NoSource]

\* The end of the body of get_photo_image: the resized image is wrapped
\* in a PhotoImage.
photo_image(absolute_uri, dops, r) ==
    [raised |-> "",
     ops |-> dops \o <<"open", "remove_alpha", "resize", "PhotoImage">>,
     value |-> [uri |-> absolute_uri, width |-> r.width,
                height |-> r.height, mode |-> r.mode]]

\* The body of get_photo_image after the download: decode, remove the
\* alpha channel, resize; a decode error propagates.
convert_content(absolute_uri, maxw, maxh, dops, i) ==
    IF i.raised # ""
    THEN [raised |-> i.raised, ops |-> dops \o <<"open">>,
          value |-> NoImage]
    ELSE photo_image(absolute_uri, dops,
             resize_image(remove_alpha_channel(i.image), maxw, maxh))

\* The body of get_photo_image, without the cache.
create_photo_image(absolute_uri, maxw, maxh, d) ==
    IF d.raised # ""
    THEN [raised |-> d.raised, ops |-> d.ops, value |-> NoImage]
    ELSE convert_content(absolute_uri, maxw, maxh, d.ops,
                         to_image(d.content))

\* A cache key that leaves the URI out.
CacheKeyWithoutUri(absolute_uri, maxw, maxh) == <<NoUri, maxw, maxh>>

\* The arguments of get_photo_image are the key of its lru_cache.
CacheKey(absolute_uri, maxw, maxh) == <<absolute_uri, maxw, maxh>>

\* A lookup that never finds an entry.
CacheHitNever(c, key) == FALSE

CacheHit(c, key) == \E i \in 1..Len(c) : c[i].key = key

CacheValue(c, key) == (CHOOSE i \in 1..Len(c) : c[i].key = key)

\* lru_cache: a hit moves the entry to the most recent place.
CacheTouch(c, i) ==
    SubSeq(c, 1, i - 1) \o SubSeq(c, i + 1, Len(c)) \o <<c[i]>>

\* lru_cache: a new entry is the most recent one; the oldest entries are
\* dropped until at most MaxSize remain.
CacheTrim(all) ==
    IF Len(all) > MaxSize
    THEN SubSeq(all, Len(all) - MaxSize + 1, Len(all))
    ELSE all

CacheStore(c, key, value) ==
    CacheTrim(Append(c, [key |-> key, value |-> value]))

\* lru_cache on a hit: the stored value, without a call of the function.
cache_hit(c, i) ==
    [raised |-> "", ops |-> <<>>, value |-> c[i].value,
     cache |-> CacheTouch(c, i)]

\* A cache that is emptied when the wrapped function raises.
cache_miss_evicting(c, key, r) ==
    IF r.raised # ""
    THEN [raised |-> r.raised, ops |-> r.ops, value |-> NoImage,
          cache |-> <<>>]
    ELSE [raised |-> "", ops |-> r.ops, value |-> r.value,
          cache |-> CacheStore(c, key, r.value)]

\* lru_cache on a miss: the result r of the wrapped function is stored
\* unless the function raised; an exception stores and evicts nothing.
cache_miss(c, key, r) ==
    IF r.raised # ""
    THEN [raised |-> r.raised, ops |-> r.ops, value |-> NoImage,
          cache |-> c]
    ELSE [raised |-> "", ops |-> r.ops, value |-> r.value,
          cache |-> CacheStore(c, key, r.value)]

\* get_photo_image: the lru_cache around create_photo_image.
get_photo_image(c, absolute_uri, maxw, maxh, response) ==
    IF CacheHit(c, CacheKey(absolute_uri, maxw, maxh))
    THEN cache_hit(c, CacheValue(c, CacheKey(absolute_uri, maxw, maxh)))
    ELSE cache_miss(c, CacheKey(absolute_uri, maxw, maxh),
             create_photo_image(absolute_uri, maxw, maxh,
                 download_resource(absolute_uri, response)))

\* ------------------------------------------------------------------------
\* input_output/backlight.py
\* ------------------------------------------------------------------------

\* SysfsBacklight.activate: brightness becomes the max_brightness value.
backlight_activate(b, maxb) == maxb

\* SysfsBacklight.deactivate: brightness becomes zero.
backlight_deactivate(b, maxb) == 0

\* pathlib.Path.is_dir
is_dir(kind) == kind = "directory"

\* pathlib.Path.is_file: the permissions of the file are not looked at.
is_file(kind) == kind \in {"file", "protected"}

\* SysfsBacklight.__init__ with _assert_backlight_directory: the directory,
\* then brightness, then max_brightness; the first one that is missing
\* raises BacklightPathError.
sysfs_backlight_init(dir) ==
    IF ~is_dir(dir.path) THEN "BacklightPathError"
    ELSE IF ~is_file(dir.brightness) THEN "BacklightPathError"
    ELSE IF ~is_file(dir.max_brightness) THEN "BacklightPathError"
    ELSE "sysfs"

\* get_backlight: a DummyBacklight without a directory, a SysfsBacklight
\* with one.
get_backlight(dir) ==
    IF ~dir.configured THEN "dummy" ELSE sysfs_backlight_init(dir)

\* The result of a backlight call: what it raised, what it logged, and the
\* contents of the two files after it.
BacklightResult(raised, logged, b, maxb) ==
    [raised |-> raised, logged |-> logged, brightness |-> b,
     max_brightness |-> maxb]

\* An activate that lets the OSError of its files leave.
sysfs_backlight_activate_propagating(b, maxb, f) ==
    IF f = "ok"
    THEN BacklightResult("", "", backlight_activate(b, maxb), maxb)
    ELSE BacklightResult("OSError", "", b, maxb)

\* An activate that writes the brightness value into max_brightness.
sysfs_backlight_activate_swapped(b, maxb, f) ==
    IF f = "ok"
    THEN BacklightResult("", "", b, b)
    ELSE BacklightResult("", "OSError", b, maxb)

\* An activate that writes 0.
sysfs_backlight_activate_dark(b, maxb, f) ==
    IF f = "ok"
    THEN BacklightResult("", "", 0, maxb)
    ELSE BacklightResult("", "OSError", b, maxb)

\* SysfsBacklight.activate: max_brightness is read and written to
\* brightness; an OSError of the read or of the write is logged and the
\* call returns.
sysfs_backlight_activate(b, maxb, f) ==
    IF f = "ok"
    THEN BacklightResult("", "", backlight_activate(b, maxb), maxb)
    ELSE BacklightResult("", "OSError", b, maxb)

\* SysfsBacklight.deactivate: "0" is written to brightness; an OSError of
\* the write is logged and the call returns.
sysfs_backlight_deactivate(b, maxb, f) ==
    IF f = "ok"
    THEN BacklightResult("", "", backlight_deactivate(b, maxb), maxb)
    ELSE BacklightResult("", "OSError", b, maxb)

\* A DummyBacklight that writes to the files all the same.
dummy_backlight_writing(b, maxb) == BacklightResult("", "", 0, maxb)

\* DummyBacklight.activate and DummyBacklight.deactivate: "Does nothing."
dummy_backlight(b, maxb) == BacklightResult("", "", b, maxb)

\* activate of the backlight that get_backlight returned.
activate(kind, b, maxb, f) ==
    IF kind = "dummy"
    THEN dummy_backlight(b, maxb)
    ELSE sysfs_backlight_activate(b, maxb, f)

\* deactivate of the backlight that get_backlight returned.
deactivate(kind, b, maxb, f) ==
    IF kind = "dummy"
    THEN dummy_backlight(b, maxb)
    ELSE sysfs_backlight_deactivate(b, maxb, f)

\* ------------------------------------------------------------------------
\* user_interface/graphical_user_interface.py: PlaybackInformationLabel
\* ------------------------------------------------------------------------

PlayingStates == {"PLAYING", "TRANSITIONING"}

\* music_library.build_album_art_full_uri as the label calls it: a
\* reference without a supported prefix is put behind the device's base.
build_album_art_full_uri(url) ==
    IF StartsWithSupportedPrefix(url) THEN url ELSE DeviceBase \o url

\* `self.config(image="")`: no image is shown.
config_no_image(c) ==
    [raised |-> "", ops |-> <<"config">>, display |-> NoImage, cache |-> c]

\* A label that shows no image when the lookup raises.
config_image_clearing(d, r) ==
    IF r.raised # ""
    THEN [raised |-> r.raised, ops |-> r.ops \o <<"config">>,
          display |-> NoImage, cache |-> r.cache]
    ELSE [raised |-> "", ops |-> r.ops \o <<"config">>,
          display |-> r.value, cache |-> r.cache]

\* _update_album_art with a URI, after the lookup r: an exception of the
\* lookup leaves before config, otherwise config shows the image.
config_image(d, r) ==
    IF r.raised # ""
    THEN [raised |-> r.raised, ops |-> r.ops, display |-> d,
          cache |-> r.cache]
    ELSE [raised |-> "", ops |-> r.ops \o <<"config">>,
          display |-> r.value, cache |-> r.cache]

\* _update_album_art
update_album_art(d, c, absolute_uri, maxw, maxh, response) ==
    IF absolute_uri # NoUri
    THEN config_image(d,
             get_photo_image(c, absolute_uri, maxw, maxh, response))
    ELSE config_no_image(c)

\* Meta data without album art clears the art.
process_track_meta_data_clearing(d, c, event, maxw, maxh, response) ==
    IF event.has_album_art_uri
    THEN update_album_art(d, c,
                          build_album_art_full_uri(event.album_art_uri),
                          maxw, maxh, response)
    ELSE update_album_art(d, c, NoUri, maxw, maxh, response)

\* _process_track_meta_data: without the album_art_uri attribute nothing
\* is updated.
process_track_meta_data(d, c, event, maxw, maxh, response) ==
    IF event.has_album_art_uri
    THEN update_album_art(d, c,
                          build_album_art_full_uri(event.album_art_uri),
                          maxw, maxh, response)
    ELSE [raised |-> "", ops |-> <<>>, display |-> d, cache |-> c]

\* A handler that activates the backlight before the meta data are
\* processed.
process_playing_activating_first(t, b, maxb) ==
    [raised |-> t.raised, ops |-> <<"activate">> \o t.ops,
     display |-> t.display, cache |-> t.cache,
     brightness |-> backlight_activate(b, maxb)]

\* The first branch of _process_av_transport_event after the meta data
\* were processed with result t: an exception leaves the handler before
\* activate is reached.
process_playing(t, b, maxb) ==
    IF t.raised # ""
    THEN [raised |-> t.raised, ops |-> t.ops, display |-> t.display,
          cache |-> t.cache, brightness |-> b]
    ELSE [raised |-> "", ops |-> t.ops \o <<"activate">>,
          display |-> t.display, cache |-> t.cache,
          brightness |-> backlight_activate(b, maxb)]

\* An event that is not playing deactivates the backlight and keeps the art.
process_not_playing_keeping(d, u, b, maxb) ==
    [raised |-> "", ops |-> <<"deactivate">>, display |-> d,
     cache |-> u.cache, brightness |-> backlight_deactivate(b, maxb)]

\* The else branch of _process_av_transport_event: deactivate, then the
\* update u of the album art with None.
process_not_playing(d, u, b, maxb) ==
    [raised |-> u.raised, ops |-> <<"deactivate">> \o u.ops,
     display |-> u.display, cache |-> u.cache,
     brightness |-> backlight_deactivate(b, maxb)]

\* _process_av_transport_event
process_av_transport_event(d, c, b, maxb, event, maxw, maxh, response) ==
    IF event.transport_state \in PlayingStates
    THEN process_playing(
             process_track_meta_data(d, c, event, maxw, maxh, response),
             b, maxb)
    ELSE process_not_playing(d,
             update_album_art(d, c, NoUri, maxw, maxh, response),
             b, maxb)

\* A queue whose get_nowait returns the first event and leaves it queued.
get_nowait_peeking(q) == [event |-> Head(q), queue |-> q]

\* A queue whose get_nowait returns the first event and drops the others.
get_nowait_draining(q) == [event |-> Head(q), queue |-> <<>>]

\* queue.Queue.get_nowait on a queue that is not empty: the first event is
\* removed and returned.
get_nowait(q) == [event |-> Head(q), queue |-> Tail(q)]

\* A tick that clears the art and the backlight when the queue is empty.
queue_empty_clearing(d, c, b) ==
    [raised |-> "", ops |-> <<"deactivate", "config">>, display |-> NoImage,
     cache |-> c, brightness |-> 0]

\* `except queue.Empty: pass`: get_nowait raises at once on an empty queue
\* and nothing is processed.
queue_empty(d, c, b) ==
    [raised |-> "", ops |-> <<>>, display |-> d, cache |-> c,
     brightness |-> b]

\* A tick that schedules the next one only when nothing was raised.
reschedule_unless_raised(raised) ==
    IF raised # "" THEN <<>> ELSE <<"after">>

\* The finally clause of _process_av_transport_event_queue: the calls of
\* `after` made when the tick ends, whatever was raised.
reschedule(raised) == <<"after">>

\* ------------------------------------------------------------------------
\* pisco.py: the single-file script with HttpPhotoImageManager
\* ------------------------------------------------------------------------

WINDOW_WIDTH == 240

WINDOW_HEIGHT == 320

\* HttpPhotoImageManager._download_resource of the script: requests.get
\* for every URI, without a check of the prefix; its error propagates.
script_download_resource(absolute_uri, response) ==
    IF response.kind = "URLError"
    THEN [raised |-> "ConnectionError", ops |-> <<"requests.get">>,
          content |-> response]
    ELSE [raised |-> "", ops |-> <<"requests.get">>, content |-> response]

\* The lru_cache of the script has the URI as its key, None included.
script_cache_key(absolute_uri) == <<absolute_uri>>

\* The body of the script's get_photo_image for None: it returns None.
script_no_photo_image == [raised |-> "", ops |-> <<>>, value |-> NoImage]

\* HttpPhotoImageManager.get_photo_image of the script: the lru_cache is
\* around the whole method, so a call with None is looked up and stored
\* like every other call.
script_get_photo_image(c, absolute_uri, response) ==
    IF CacheHit(c, script_cache_key(absolute_uri))
    THEN cache_hit(c, CacheValue(c, script_cache_key(absolute_uri)))
    ELSE IF absolute_uri = NoUri
    THEN cache_miss(c, script_cache_key(absolute_uri), script_no_photo_image)
    ELSE cache_miss(c, script_cache_key(absolute_uri),
             create_photo_image(absolute_uri, WINDOW_WIDTH, WINDOW_HEIGHT,
                 script_download_resource(absolute_uri, response)))

\* `self.config(image=...)` of the script after the lookup r: an exception
\* of the lookup leaves before config. With None the label is left with
\* the bitmap it had, which the cache has dropped for the None entry, so
\* that no image is shown.
script_config_image(d, r) ==
    IF r.raised # ""
    THEN [raised |-> r.raised, ops |-> r.ops, display |-> d,
          cache |-> r.cache]
    ELSE [raised |-> "", ops |-> r.ops \o <<"config">>,
          display |-> r.value, cache |-> r.cache]

\* PlaybackInformationLabel._update_album_art of the script: every URI,
\* None included, is handed to get_photo_image.
script_update_album_art(d, c, absolute_uri, response) ==
    script_config_image(d, script_get_photo_image(c, absolute_uri, response))

\* PlaybackInformationLabel._process_track_meta_data of the script
script_process_track_meta_data(d, c, event, response) ==
    IF event.has_album_art_uri
    THEN script_update_album_art(d, c,
             build_album_art_full_uri(event.album_art_uri), response)
    ELSE [raised |-> "", ops |-> <<>>, display |-> d, cache |-> c]

\* PlaybackInformationLabel._process_av_transport_event of the script
script_process_av_transport_event(d, c, b, maxb, event, response) ==
    IF event.transport_state \in PlayingStates
    THEN process_playing(
             script_process_track_meta_data(d, c, event, response), b, maxb)
    ELSE process_not_playing(d,
             script_update_album_art(d, c, NoUri, response), b, maxb)

\* ------------------------------------------------------------------------
\* State machine
\* ------------------------------------------------------------------------

\* The session is open and the main thread is in the main loop.
InMainloop ==
    /\ phase = "mainloop"
    /\ subscription = "subscribed"
    /\ listener = "running"
    /\ teardown = <<>>
    /\ pending = ""
    /\ handled = ""
    /\ handler = "installed"
    /\ exception = ""
    /\ renewFailed = FALSE
    /\ resized = NoResize
    /\ flattened = NoFlatten
    /\ discovered = "SoCo"

\* The label has a SysfsBacklight of a directory with both files, and the
\* files work.
SysfsBacklightBuilt ==
    /\ directory = Directory("directory", "file", "file")
    /\ backlight = get_backlight(directory)
    /\ io = ""

\* The label after its construction, before the first tick.
InitLabel ==
    /\ InMainloop
    /\ queue = <<>>
    /\ display = NoImage
    /\ cache = <<>>
    /\ \E box \in Boxes : max_width = box[1] /\ max_height = box[2]
    /\ max_brightness \in MaxBrightnessValues
    /\ brightness \in {0, max_brightness}
    /\ scheduled = 1
    /\ uiRunning = TRUE
    /\ lastEvent = NoEvent
    /\ lastResolved = NoUri
    /\ outcome = "none"
    /\ ops = <<>>
    /\ calls = <<>>

\* No key is pressed and the favorites of the device are not asked for.
NoKeys ==
    /\ favorites = <<>>
    /\ keypress = NoKeyPress

Init ==
    /\ InitLabel
    /\ SysfsBacklightBuilt
    /\ NoKeys

\* The background subscription thread puts an event into the queue.
Enqueue(event) ==
    /\ Len(queue) < MaxQueue
    /\ queue' = Append(queue, event)
    /\ UNCHANGED <<display, cache, max_width, max_height, brightness,
                   max_brightness, scheduled, uiRunning, lastEvent,
                   lastResolved, outcome, ops, calls, application,
                   resized, standalone>>

\* The else clause and the finally clause of
\* _process_av_transport_event_queue: the event was taken from the queue
\* and processed with result p.
ProcessEvent(event, p) ==
    /\ queue' = get_nowait(queue).queue
    /\ lastEvent' = event
    /\ lastResolved' =
           IF /\ event.transport_state \in PlayingStates
              /\ event.has_album_art_uri
              /\ p.raised = ""
           THEN build_album_art_full_uri(event.album_art_uri)
           ELSE lastResolved
    /\ display' = p.display
    /\ cache' = p.cache
    /\ brightness' = p.brightness
    /\ outcome' = IF p.raised # "" THEN "raised" ELSE "processed"
    /\ ops' = p.ops \o reschedule(p.raised)
    /\ scheduled' = scheduled - 1 + Len(reschedule(p.raised))

\* The except clause and the finally clause of
\* _process_av_transport_event_queue: the queue was empty, with result e.
QueueEmpty(e) ==
    /\ display' = e.display
    /\ cache' = e.cache
    /\ brightness' = e.brightness
    /\ outcome' = "empty"
    /\ ops' = e.ops \o reschedule(e.raised)
    /\ scheduled' = scheduled - 1 + Len(reschedule(e.raised))
    /\ UNCHANGED <<queue, lastEvent, lastResolved>>

\* _process_av_transport_event_queue: one tick of the polling loop.
ProcessAvTransportEventQueue(response) ==
    /\ uiRunning
    /\ scheduled > 0
    /\ IF queue = <<>>
       THEN QueueEmpty(queue_empty(display, cache, brightness))
       ELSE ProcessEvent(get_nowait(queue).event,
                process_av_transport_event(display, cache, brightness,
                    max_brightness, get_nowait(queue).event, max_width,
                    max_height, response))
    /\ UNCHANGED <<max_width, max_height, max_brightness, uiRunning, calls,
                   application, resized, standalone>>

\* TopLevelWidget._handle_int_or_term_signal: destroy ends the main loop
\* and drops the pending callbacks.
HandleIntOrTermSignal ==
    /\ uiRunning
    /\ uiRunning' = FALSE
    /\ scheduled' = 0
    /\ UNCHANGED <<queue, display, cache, max_width, max_height, brightness,
                   max_brightness, lastEvent, lastResolved, outcome, ops,
                   calls, application,
                   resized, standalone>>

Next ==
    \/ \E event \in Events : Enqueue(event)
    \/ \E response \in Responses : ProcessAvTransportEventQueue(response)
    \/ HandleIntOrTermSignal

Spec == Init /\ [][Next]_vars

\* The finally clause of _process_av_transport_event_queue schedules the
\* next tick with after() and the main loop of Tk runs every scheduled
\* callback whose time has come: a tick that stays scheduled is run.
FairTicks ==
    WF_vars(\E response \in Responses : ProcessAvTransportEventQueue(response))

\* The events of a listening session that ends: a track with album art, a
\* track with other album art and the stop.
FairEvents ==
    {Event("PLAYING", TRUE, RelativeArt1),
     Event("PLAYING", TRUE, AbsoluteArt2),
     Event("STOPPED", FALSE, NoUri)}

NextFair ==
    \/ \E event \in FairEvents : Enqueue(event)
    \/ \E response \in Responses : ProcessAvTransportEventQueue(response)
    \/ HandleIntOrTermSignal

SpecFair == Init /\ [][NextFair]_vars /\ FairTicks

\* The caller's record of a direct call with result r.
RecordCall(absolute_uri, maxw, maxh, r) ==
    /\ cache' = r.cache
    /\ calls' = (IF Len(calls) < MaxCalls THEN calls ELSE Tail(calls))
                \o <<[uri |-> absolute_uri, max_width |-> maxw,
                      max_height |-> maxh, raised |-> r.raised,
                      ops |-> r.ops, value |-> r.value]>>

\* The caller's record of a call of activate or deactivate with result r.
RecordBacklightCall(op, f, r) ==
    /\ brightness' = r.brightness
    /\ max_brightness' = r.max_brightness
    /\ io' = f
    /\ calls' = (IF Len(calls) < MaxCalls THEN calls ELSE Tail(calls))
                \o <<[op |-> op, io |-> f, raised |-> r.raised,
                      logged |-> r.logged, before |-> brightness,
                      brightness |-> r.brightness]>>

\* A caller resolves a URI directly, as the tests of http_image do.
CallGetPhotoImage(absolute_uri, maxw, maxh, response) ==
    /\ RecordCall(absolute_uri, maxw, maxh,
           get_photo_image(cache, absolute_uri, maxw, maxh, response))
    /\ UNCHANGED <<queue, display, max_width, max_height, brightness,
                   max_brightness, scheduled, uiRunning, lastEvent,
                   lastResolved, outcome, ops, application,
                   resized, standalone>>

\* The arguments of the direct calls: two URIs in one box, one of them
\* also in a second box, and a URI that is no http(s) URI.
Requests ==
    {<<AbsoluteArt1, 320, 320>>, <<AbsoluteArt1, 240, 320>>,
     <<AbsoluteArt2, 320, 320>>, <<FileArt, 320, 320>>}

NextResolver ==
    \E request \in Requests, response \in Responses :
        CallGetPhotoImage(request[1], request[2], request[3], response)

\* The resolver alone: the label is idle and only direct calls happen.
InitResolver ==
    /\ Init
    /\ <<max_width, max_height>> = <<320, 320>>
    /\ brightness = max_brightness

SpecResolver == InitResolver /\ [][NextResolver]_vars

\* PlaybackInformationLabel._process_av_transport_event_queue of the
\* script: one tick of its polling loop.
ScriptProcessAvTransportEventQueue(response) ==
    /\ uiRunning
    /\ scheduled > 0
    /\ IF queue = <<>>
       THEN QueueEmpty(queue_empty(display, cache, brightness))
       ELSE ProcessEvent(get_nowait(queue).event,
                script_process_av_transport_event(display, cache, brightness,
                    max_brightness, get_nowait(queue).event, response))
    /\ UNCHANGED <<max_width, max_height, max_brightness, uiRunning, calls,
                   application, resized, standalone>>

NextScript ==
    \/ \E event \in Events : Enqueue(event)
    \/ \E response \in Responses : ScriptProcessAvTransportEventQueue(response)
    \/ HandleIntOrTermSignal

\* The script has one window size.
InitScript ==
    /\ Init
    /\ <<max_width, max_height>> = <<WINDOW_WIDTH, WINDOW_HEIGHT>>

\* The script pisco.py: the same polling loop around its own image manager.
SpecScript == InitScript /\ [][NextScript]_vars

\* ------------------------------------------------------------------------
\* application.py, input_output/sonos_device.py: the session around the
\* main loop
\* ------------------------------------------------------------------------

\* The events of the device while the whole application is followed.
ApplicationEvents ==
    {Event("PLAYING", FALSE, NoUri), Event("STOPPED", FALSE, NoUri)}

\* A manager that ends the session only when no exception leaves the block.
sonos_device_manager_exit_unless_raised(exc) ==
    IF exc # "" THEN <<>> ELSE <<"unsubscribe", "stop">>

\* SonosDeviceManager.__exit__: unsubscribe, then stop the event listener,
\* whatever exception leaves the with block.
sonos_device_manager_exit(exc) == <<"unsubscribe", "stop">>

\* A failure callback that only writes to the log.
handle_autorenew_failure_logging(p) == p

\* handle_autorenew_failure: _thread.interrupt_main() trips SIGINT for the
\* main thread.
handle_autorenew_failure(p) == "SIGINT"

\* A signal handler that only writes to the log.
destroy_nothing(running, callbacks) ==
    [uiRunning |-> running, scheduled |-> callbacks]

\* `self.destroy()` of the top-level widget: the window is gone, the main
\* loop ends and the pending callbacks are dropped.
destroy(running, callbacks) == [uiRunning |-> FALSE, scheduled |-> 0]

\* The label and the resolver are not touched.
UnchangedLabel ==
    UNCHANGED <<queue, display, cache, max_width, max_height,
                max_brightness, lastEvent, lastResolved, outcome, ops, calls,
                resized, standalone>>

\* The backlight directory of the command line: one with both files, or
\* a path where nothing is.
ApplicationDirectories ==
    {Directory("directory", "file", "file"),
     Directory("absent", "absent", "absent")}

InitApplication ==
    /\ queue = <<>>
    /\ display = NoImage
    /\ cache = <<>>
    /\ max_width = 320
    /\ max_height = 320
    /\ max_brightness \in MaxBrightnessValues
    /\ brightness \in {0, max_brightness}
    /\ scheduled = 0
    /\ uiRunning = FALSE
    /\ lastEvent = NoEvent
    /\ lastResolved = NoUri
    /\ outcome = "none"
    /\ ops = <<>>
    /\ calls = <<>>
    /\ phase = "start"
    /\ subscription = "none"
    /\ listener = "none"
    /\ teardown = <<>>
    /\ pending = ""
    /\ handled = ""
    /\ handler = "default"
    /\ exception = ""
    /\ renewFailed = FALSE
    /\ resized = NoResize
    /\ flattened = NoFlatten
    /\ directory \in ApplicationDirectories
    /\ backlight = "none"
    /\ io = ""
    /\ NoKeys
    /\ discovered = ""

\* A discovery whose None is taken for a controller.
discover_controller_unchecked(controller) == ""

\* _discover_controller: ClickException when by_name returned None.
discover_controller(controller) ==
    IF controller = "None" THEN "ClickException" ELSE ""

\* SonosDeviceManager.__init__ after _discover_controller raised e or
\* returned: the subscription is made, or the exception leaves
\* run_application.
SessionOpenedUnless(e) ==
    IF e = ""
    THEN /\ phase' = "opened"
         /\ subscription' = "subscribed"
         /\ listener' = "running"
         /\ UNCHANGED exception
    ELSE /\ phase' = "done"
         /\ exception' = e
         /\ UNCHANGED <<subscription, listener>>

\* SonosDeviceManager.__init__ and __enter__: the device is discovered and
\* subscribed to, or no device of that name is found.
OpenSession(controller) ==
    /\ phase = "start"
    /\ discovered' = controller
    /\ SessionOpenedUnless(discover_controller(controller))
    /\ UNCHANGED <<teardown, pending, handled, handler, renewFailed,
                   brightness, scheduled, uiRunning>>
    /\ UNCHANGED <<queue, display, cache, max_width, max_height,
                   max_brightness, lastEvent, lastResolved, outcome, ops,
                   calls, resized, flattened, directory, backlight, io,
                   favorites, keypress>>

\* The backlight manager is built and entered, or its directory is wrong.
EnterBacklight ==
    /\ phase = "opened"
    /\ IF get_backlight(directory) \in {"sysfs", "dummy"}
       THEN /\ backlight' = get_backlight(directory)
            /\ phase' = "backlight"
            /\ UNCHANGED exception
       ELSE /\ phase' = "sonos_exit"
            /\ exception' = get_backlight(directory)
            /\ UNCHANGED backlight
    /\ UNCHANGED <<subscription, listener, teardown, pending, handled,
                   handler, renewFailed, brightness, scheduled, uiRunning>>
    /\ UNCHANGED <<queue, display, cache, max_width, max_height,
                   max_brightness, lastEvent, lastResolved, outcome, ops,
                   calls, resized, flattened, directory, io, favorites,
                   keypress, discovered>>

\* run of the user interface up to mainloop(): the widgets are built, the
\* signal handlers are installed and the first tick is scheduled; or Tk
\* finds no display.
RunUserInterface(hasDisplay) ==
    /\ phase = "backlight"
    /\ IF hasDisplay
       THEN /\ phase' = "mainloop"
            /\ handler' = "installed"
            /\ uiRunning' = TRUE
            /\ scheduled' = 1
            /\ UNCHANGED exception
       ELSE /\ phase' = "backlight_exit"
            /\ exception' = "TclError"
            /\ UNCHANGED <<handler, uiRunning, scheduled>>
    /\ UNCHANGED <<subscription, listener, teardown, pending, handled,
                   renewFailed, brightness>>
    /\ UnchangedLabel

\* The event listener thread puts an event of the subscription into the
\* queue.
ListenerEnqueue(event) ==
    /\ subscription = "subscribed"
    /\ listener = "running"
    /\ Enqueue(event)

\* The window is closed by the user: the main loop ends.
WindowClosed ==
    /\ uiRunning
    /\ uiRunning' = FALSE
    /\ scheduled' = 0
    /\ UNCHANGED <<application, brightness>>
    /\ UnchangedLabel

\* SIGINT or SIGTERM arrives while the handlers of the top-level widget are
\* installed.
DeliverSignal(signal) ==
    /\ handler = "installed"
    /\ phase # "done"
    /\ pending = ""
    /\ pending' = signal
    /\ UNCHANGED <<phase, subscription, listener, teardown, handled, handler,
                   exception, renewFailed, brightness, scheduled, uiRunning>>
    /\ UnchangedLabel

\* The autorenewal thread of the subscription fails and calls
\* handle_autorenew_failure.
AutorenewFailure ==
    /\ subscription = "subscribed"
    /\ phase # "done"
    /\ ~renewFailed
    /\ renewFailed' = TRUE
    /\ pending' = handle_autorenew_failure(pending)
    /\ UNCHANGED <<phase, subscription, listener, teardown, handled, handler,
                   exception, brightness, scheduled, uiRunning>>
    /\ UnchangedLabel

\* The main thread runs the default handler of SIGINT: KeyboardInterrupt
\* is raised where the main thread is and leaves the with block.
RaiseKeyboardInterrupt ==
    /\ pending # ""
    /\ handler = "default"
    /\ phase \in {"opened", "backlight", "backlight_exit", "sonos_exit"}
    /\ pending' = ""
    /\ handled' = pending
    /\ exception' = "KeyboardInterrupt"
    /\ phase' = CASE phase = "opened" -> "sonos_exit"
                  [] phase = "backlight" -> "backlight_exit"
                  [] OTHER -> phase
    /\ UNCHANGED <<subscription, listener, teardown, handler, renewFailed,
                   brightness, scheduled, uiRunning>>
    /\ UnchangedLabel

\* The result d of destroy in _handle_int_or_term_signal.
Destroyed(d) ==
    /\ uiRunning' = d.uiRunning
    /\ scheduled' = d.scheduled

\* The main thread runs _handle_int_or_term_signal while the window
\* exists.
RunIntOrTermSignalHandler ==
    /\ pending # ""
    /\ handler = "installed"
    /\ uiRunning
    /\ pending' = ""
    /\ handled' = pending
    /\ Destroyed(destroy(uiRunning, scheduled))
    /\ UNCHANGED <<phase, subscription, listener, teardown, handler,
                   exception, renewFailed, brightness>>
    /\ UnchangedLabel

\* The main thread runs _handle_int_or_term_signal after the window was
\* destroyed: destroy raises TclError where the main thread is.
RunIntOrTermSignalHandlerAfterDestroy ==
    /\ pending # ""
    /\ handler = "installed"
    /\ ~uiRunning
    /\ phase \in {"mainloop", "backlight_exit", "sonos_exit"}
    /\ pending' = ""
    /\ handled' = pending
    /\ exception' = "TclError"
    /\ phase' = IF phase = "mainloop" THEN "backlight_exit" ELSE phase
    /\ UNCHANGED <<subscription, listener, teardown, handler, renewFailed,
                   brightness, scheduled, uiRunning>>
    /\ UnchangedLabel

\* mainloop() returns after the window was destroyed.
MainloopReturns ==
    /\ phase = "mainloop"
    /\ ~uiRunning
    /\ phase' = "backlight_exit"
    /\ UNCHANGED <<subscription, listener, teardown, pending, handled,
                   handler, exception, renewFailed, brightness, scheduled,
                   uiRunning>>
    /\ UnchangedLabel

\* An exit that leaves the backlight as it is.
abstract_backlight_exit_nothing(kind, b, maxb, f) ==
    [op |-> "", result |-> BacklightResult("", "", b, maxb)]

\* AbstractBacklight.__exit__: `self.activate()`, whatever exception
\* leaves the with block.
abstract_backlight_exit(kind, b, maxb, f) ==
    [op |-> "activate", result |-> activate(kind, b, maxb, f)]

\* The call x that the exit of the backlight made.
BacklightExited(x) == RecordBacklightCall(x.op, "ok", x.result)

\* The exit of the backlight manager: the backlight is activated.
BacklightExit ==
    /\ phase = "backlight_exit"
    /\ phase' = "sonos_exit"
    /\ BacklightExited(
           abstract_backlight_exit(backlight, brightness, max_brightness,
                                   "ok"))
    /\ UNCHANGED <<subscription, listener, teardown, pending, handled,
                   handler, exception, renewFailed, scheduled, uiRunning>>
    /\ UNCHANGED <<queue, display, cache, max_width, max_height, lastEvent,
                   lastResolved, outcome, ops, resized, flattened,
                   directory, backlight, favorites, keypress, discovered>>

\* The calls t of SonosDeviceManager.__exit__ on the subscription.
SessionEnded(t) ==
    /\ teardown' = teardown \o t
    /\ subscription' = IF \E i \in 1..Len(t) : t[i] = "unsubscribe"
                       THEN "unsubscribed" ELSE subscription
    /\ listener' = IF \E i \in 1..Len(t) : t[i] = "stop"
                   THEN "stopped" ELSE listener

\* SonosDeviceManager.__exit__, after which run_application is left.
SonosDeviceManagerExit ==
    /\ phase = "sonos_exit"
    /\ phase' = "done"
    /\ SessionEnded(sonos_device_manager_exit(exception))
    /\ UNCHANGED <<pending, handled, handler, exception, renewFailed,
                   brightness, scheduled, uiRunning>>
    /\ UnchangedLabel

NextApplication ==
    \/ \E controller \in {"SoCo", "None"} : OpenSession(controller)
    \/ EnterBacklight
    \/ \E hasDisplay \in BOOLEAN : RunUserInterface(hasDisplay)
    \/ \E event \in ApplicationEvents : ListenerEnqueue(event)
    \/ \E response \in Responses : ProcessAvTransportEventQueue(response)
    \/ WindowClosed
    \/ \E signal \in {"SIGINT", "SIGTERM"} : DeliverSignal(signal)
    \/ AutorenewFailure
    \/ RaiseKeyboardInterrupt
    \/ RunIntOrTermSignalHandler
    \/ RunIntOrTermSignalHandlerAfterDestroy
    \/ MainloopReturns
    \/ BacklightExit
    \/ SonosDeviceManagerExit

\* run_application from its start to its end.
SpecApplication == InitApplication /\ [][NextApplication]_vars

\* The main thread goes on: it handles a tripped signal, returns from the
\* main loop when the window is gone and runs the exits of the with block.
FairApplication ==
    /\ WF_vars(RaiseKeyboardInterrupt)
    /\ WF_vars(RunIntOrTermSignalHandler)
    /\ WF_vars(RunIntOrTermSignalHandlerAfterDestroy)
    /\ WF_vars(MainloopReturns)
    /\ WF_vars(BacklightExit)
    /\ WF_vars(SonosDeviceManagerExit)

SpecApplicationFair == SpecApplication /\ FairApplication

\* ------------------------------------------------------------------------
\* input_output/http_image.py: _resize_image alone
\* ------------------------------------------------------------------------

\* Sizes of the images that are resized: every small size, and the sizes
\* of Sources.
ImageSizes ==
    ((1..MaxSide) \X (1..MaxSide))
    \cup {<<source.width, source.height>> : source \in Sources}

\* Sizes of the boxes: every small size, and Boxes.
BoxSizes == ((1..MaxSide) \X (1..MaxSide)) \cup Boxes

\* _resize_image is called once, with an image of the size and a box.
ResizeImage(size, box) ==
    /\ resized = NoResize
    /\ resized' =
           [image |-> [width |-> size[1], height |-> size[2], mode |-> "RGB"],
            max_width |-> box[1],
            max_height |-> box[2],
            result |-> resize_image(
                [width |-> size[1], height |-> size[2], mode |-> "RGB"],
                box[1], box[2])]
    /\ UNCHANGED <<brightness, scheduled, uiRunning, application>>
    /\ UNCHANGED <<queue, display, cache, max_width, max_height,
                   max_brightness, lastEvent, lastResolved, outcome, ops,
                   calls, standalone>>

NextResize ==
    \E size \in ImageSizes, box \in BoxSizes : ResizeImage(size, box)

SpecResize == InitResolver /\ [][NextResize]_vars

\* ------------------------------------------------------------------------
\* input_output/http_image.py: _remove_alpha_channel alone
\* ------------------------------------------------------------------------

\* The images that are flattened: every mode in every size.
FlattenedImages ==
    {[width |-> size[1], height |-> size[2], mode |-> mode] :
        size \in ImageSizes, mode \in ImageModes}

\* _remove_alpha_channel is called once, with an image.
RemoveAlphaChannel(image) ==
    /\ flattened = NoFlatten
    /\ flattened' = [image |-> image, result |-> remove_alpha_channel(image)]
    /\ UNCHANGED <<brightness, scheduled, uiRunning, application>>
    /\ UNCHANGED <<queue, display, cache, max_width, max_height,
                   max_brightness, lastEvent, lastResolved, outcome, ops,
                   calls, resized, directory, backlight, io, favorites,
                   keypress, discovered>>

NextAlpha == \E image \in FlattenedImages : RemoveAlphaChannel(image)

SpecAlpha == InitResolver /\ [][NextAlpha]_vars

\* ------------------------------------------------------------------------
\* input_output/backlight.py: the backlight alone
\* ------------------------------------------------------------------------

\* The label and the session are not touched.
UnchangedButBacklight ==
    /\ UNCHANGED <<scheduled, uiRunning, application, resized, flattened,
                   favorites, keypress, discovered>>
    /\ UNCHANGED <<queue, display, cache, max_width, max_height, lastEvent,
                   lastResolved, outcome, ops>>

\* get_backlight is called with the configured directory.
GetBacklight ==
    /\ backlight = "none"
    /\ backlight' = get_backlight(directory)
    /\ UNCHANGED <<directory, io, brightness, max_brightness, calls>>
    /\ UnchangedButBacklight

\* What the files of the directory can do in a call: a file that the
\* process may not read or write fails every time, any other file may fail.
CanHappen(dir, op, f) ==
    /\ (op = "deactivate") => f # "read_fails"
    /\ (op = "activate" /\ dir.max_brightness = "protected") =>
           f = "read_fails"
    /\ dir.brightness = "protected" => f # "ok"

\* A caller activates the backlight directly, as the tests do.
Activate(f) ==
    /\ backlight \in {"sysfs", "dummy"}
    /\ IF backlight = "dummy" THEN f = "ok"
       ELSE CanHappen(directory, "activate", f)
    /\ RecordBacklightCall("activate", f,
           activate(backlight, brightness, max_brightness, f))
    /\ UNCHANGED <<directory, backlight>>
    /\ UnchangedButBacklight

\* A caller deactivates the backlight directly, as the tests do.
Deactivate(f) ==
    /\ backlight \in {"sysfs", "dummy"}
    /\ IF backlight = "dummy" THEN f = "ok"
       ELSE CanHappen(directory, "deactivate", f)
    /\ RecordBacklightCall("deactivate", f,
           deactivate(backlight, brightness, max_brightness, f))
    /\ UNCHANGED <<directory, backlight>>
    /\ UnchangedButBacklight

NextBacklight ==
    \/ GetBacklight
    \/ \E f \in IoOutcomes : Activate(f)
    \/ \E f \in IoOutcomes : Deactivate(f)

\* Before get_backlight: a directory or none is configured, and the
\* brightness file, where there is one, holds some value.
InitBacklight ==
    /\ InitLabel
    /\ <<max_width, max_height>> = <<320, 320>>
    /\ directory \in Directories \cup {NoDirectory}
    /\ backlight = "none"
    /\ io = ""
    /\ NoKeys

SpecBacklight == InitBacklight /\ [][NextBacklight]_vars

\* ------------------------------------------------------------------------
\* The polling loop with the backlight that get_backlight returned
\* ------------------------------------------------------------------------

\* The events of the device while the backlight is followed.
BacklightEvents ==
    {Event("PLAYING", TRUE, RelativeArt1), Event("PLAYING", FALSE, NoUri),
     Event("STOPPED", FALSE, NoUri)}

\* The backlight method that the handler with result p called, if any.
BacklightCall(p) ==
    IF \E i \in 1..Len(p.ops) : p.ops[i] = "activate" THEN "activate"
    ELSE IF \E i \in 1..Len(p.ops) : p.ops[i] = "deactivate"
    THEN "deactivate"
    ELSE ""

\* self._backlight.activate() or self._backlight.deactivate() in
\* _process_av_transport_event: the result of the call named op.
backlight_call(op, kind, b, maxb, f) ==
    IF op = "activate" THEN activate(kind, b, maxb, f)
    ELSE IF op = "deactivate" THEN deactivate(kind, b, maxb, f)
    ELSE BacklightResult("", "", b, maxb)

\* _process_av_transport_event with the result r of its backlight call,
\* where p is the result of the handler with files that work: an
\* exception of deactivate would leave the handler before the art is
\* cleared, an exception of activate at its end.
with_backlight(d, c, p, op, r) ==
    IF r.raised = "" THEN [p EXCEPT !.brightness = r.brightness]
    ELSE IF op = "deactivate"
    THEN [raised |-> r.raised, ops |-> <<"deactivate">>, display |-> d,
          cache |-> c, brightness |-> r.brightness]
    ELSE [p EXCEPT !.raised = r.raised, !.brightness = r.brightness]

\* The handler with result p and the backlight of the label.
process_with_backlight(d, c, p, kind, b, maxb, f) ==
    with_backlight(d, c, p, BacklightCall(p),
        backlight_call(BacklightCall(p), kind, b, maxb, f))

\* What the files do in the tick whose handler has result p.
TickIo(p, kind, dir, f) ==
    IF BacklightCall(p) = "" \/ kind = "dummy" THEN f = "ok"
    ELSE CanHappen(dir, BacklightCall(p), f)

\* The tick took an event; its handler has result p with files that work.
BacklightProcessEvent(p, f) ==
    /\ TickIo(p, backlight, directory, f)
    /\ io' = (IF BacklightCall(p) = "" \/ backlight = "dummy" THEN ""
              ELSE f)
    /\ ProcessEvent(get_nowait(queue).event,
           process_with_backlight(display, cache, p, backlight, brightness,
               max_brightness, f))

\* _process_av_transport_event_queue: one tick of the polling loop, with
\* the backlight of the label and what its files do.
BacklightProcessAvTransportEventQueue(response, f) ==
    /\ uiRunning
    /\ scheduled > 0
    /\ IF queue = <<>>
       THEN /\ f = "ok"
            /\ io' = ""
            /\ QueueEmpty(queue_empty(display, cache, brightness))
       ELSE BacklightProcessEvent(
                process_av_transport_event(display, cache, brightness,
                    max_brightness, get_nowait(queue).event, max_width,
                    max_height, response), f)
    /\ UNCHANGED <<max_width, max_height, max_brightness, uiRunning, calls,
                   application, resized, flattened, directory, backlight,
                   favorites, keypress, discovered>>

\* The subscription thread puts one of the events into the queue.
BacklightEnqueue(event) ==
    /\ event \in BacklightEvents
    /\ Enqueue(event)

NextBacklightTick ==
    \/ \E event \in BacklightEvents : BacklightEnqueue(event)
    \/ \E response \in Responses, f \in IoOutcomes :
           BacklightProcessAvTransportEventQueue(response, f)
    \/ HandleIntOrTermSignal

\* The label with the backlight of a directory whose files may fail, of a
\* directory whose files may not be read or written, or of no directory.
InitBacklightTick ==
    /\ InitLabel
    /\ <<max_width, max_height>> = <<320, 320>>
    /\ directory \in {Directory("directory", "file", "file"),
                      Directory("directory", "protected", "protected"),
                      NoDirectory}
    /\ backlight = get_backlight(directory)
    /\ io = ""
    /\ NoKeys

SpecBacklightTick == InitBacklightTick /\ [][NextBacklightTick]_vars

\* ------------------------------------------------------------------------
\* input_output/sonos_device.py and TopLevelWidget: the key presses
\* ------------------------------------------------------------------------

\* str.isdigit for a keysym.
isdigit(key_symbol) ==
    \E i \in 1..Len(DigitKeys) : DigitKeys[i] = key_symbol

\* int(key_symbol) for the keysym of a digit key.
int(key_symbol) ==
    (CHOOSE i \in 1..Len(DigitKeys) : DigitKeys[i] = key_symbol) - 1

\* What a handler did: the exception that left it, what it logged as an
\* error, what it read from the device, and the queries and the commands
\* it sent to the device, in order.
KeyResult(raised, logged, read, queries, commands) ==
    [raised |-> raised, logged |-> logged, read |-> read,
     queries |-> queries, commands |-> commands]

\* A command that is sent twice.
send_twice(read, queries, c, command_ok) ==
    KeyResult(IF command_ok THEN "" ELSE "SoCoException", "", read, queries,
              <<c, c>>)

\* A command c is sent to the device; the device answers or the call
\* raises.
send(read, queries, c, command_ok) ==
    KeyResult(IF command_ok THEN "" ELSE "SoCoException", "", read, queries,
              <<c>>)

\* A play that reads resource_meta_data of every favorite: AttributeError
\* for a favorite without it.
play_sonos_favorite_strict(favorite, queries, command_ok) ==
    IF favorite.has_resource_meta_data
    THEN send("", queries, Command("play_uri", <<favorite.uri, "meta">>),
              command_ok)
    ELSE KeyResult("AttributeError", "", "", queries, <<>>)

\* _play_sonos_favorite: play_uri with the URI of the favorite, and with
\* its resource_meta_data if it has that attribute.
play_sonos_favorite(favorite, queries, command_ok) ==
    IF favorite.has_resource_meta_data
    THEN send("", queries, Command("play_uri", <<favorite.uri, "meta">>),
              command_ok)
    ELSE send("", queries, Command("play_uri", <<favorite.uri>>),
              command_ok)

\* An index past the end of the list takes the last favorite.
favorite_at_clamped(list, index) ==
    IF list = <<>> THEN [raised |-> "IndexError", favorite |-> Favorite(0)]
    ELSE IF index >= Len(list)
    THEN [raised |-> "", favorite |-> list[Len(list)]]
    ELSE [raised |-> "", favorite |-> list[index + 1]]

\* `get_sonos_favorites()[index]` for index >= 0: IndexError past the end
\* of the list.
favorite_at(list, index) ==
    IF index >= Len(list)
    THEN [raised |-> "IndexError", favorite |-> Favorite(0)]
    ELSE [raised |-> "", favorite |-> list[index + 1]]

\* play_sonos_favorite_by_index after the list was fetched, with the
\* result x of the subscript: an item that is no DidlObject is logged as
\* an error and not played.
play_favorite_found(x, command_ok) ==
    IF x.raised # ""
    THEN KeyResult(x.raised, "", "", <<"get_sonos_favorites">>, <<>>)
    ELSE IF ~x.favorite.didl
    THEN KeyResult("", "Could not play Sonos favorite.", "",
                   <<"get_sonos_favorites">>, <<>>)
    ELSE play_sonos_favorite(x.favorite, <<"get_sonos_favorites">>,
                             command_ok)

\* play_sonos_favorite_by_index
play_sonos_favorite_by_index(list, index, query_ok, command_ok) ==
    IF ~query_ok
    THEN KeyResult("SoCoException", "", "", <<"get_sonos_favorites">>, <<>>)
    ELSE play_favorite_found(favorite_at(list, index), command_ok)

\* A toggle that takes TRANSITIONING for playing as well.
toggle_of_playing_states(state, query_ok, command_ok) ==
    IF ~query_ok
    THEN KeyResult("SoCoException", "", "",
                   <<"get_current_transport_info">>, <<>>)
    ELSE IF state \in PlayingStates
    THEN send(state, <<"get_current_transport_info">>,
              Command("pause", <<>>), command_ok)
    ELSE send(state, <<"get_current_transport_info">>,
              Command("play", <<>>), command_ok)

\* toggle_current_transport_state: pause when the device reports PLAYING,
\* play otherwise.
toggle_current_transport_state(state, query_ok, command_ok) ==
    IF ~query_ok
    THEN KeyResult("SoCoException", "", "",
                   <<"get_current_transport_info">>, <<>>)
    ELSE IF state = "PLAYING"
    THEN send(state, <<"get_current_transport_info">>,
              Command("pause", <<>>), command_ok)
    ELSE send(state, <<"get_current_transport_info">>,
              Command("play", <<>>), command_ok)

\* `controller.mute = not controller.mute`
toggle_mute(muted, query_ok, command_ok) ==
    IF ~query_ok
    THEN KeyResult("SoCoException", "", "", <<"mute">>, <<>>)
    ELSE IF muted
    THEN send("True", <<"mute">>, Command("mute", <<"False">>), command_ok)
    ELSE send("False", <<"mute">>, Command("mute", <<"True">>), command_ok)

\* _handle_key_press_event
handle_key_press_event(key_symbol, list, state, muted, query_ok, command_ok) ==
    IF isdigit(key_symbol)
    THEN play_sonos_favorite_by_index(list, int(key_symbol), query_ok,
                                      command_ok)
    ELSE IF key_symbol \in {"Left", "XF86AudioRewind"}
    THEN send("", <<>>, Command("previous", <<>>), command_ok)
    ELSE IF key_symbol \in {"Right", "XF86AudioForward"}
    THEN send("", <<>>, Command("next", <<>>), command_ok)
    ELSE IF key_symbol \in {"Return", "XF86AudioPlay"}
    THEN toggle_current_transport_state(state, query_ok, command_ok)
    ELSE IF key_symbol = "XF86AudioStop"
    THEN send("", <<>>, Command("stop", <<>>), command_ok)
    ELSE IF key_symbol = "XF86AudioMute"
    THEN toggle_mute(muted, query_ok, command_ok)
    ELSE IF key_symbol \in {"Up", "XF86AudioRaiseVolume"}
    THEN send("", <<>>, Command("set_relative_volume", <<"+5">>), command_ok)
    ELSE IF key_symbol \in {"Down", "XF86AudioLowerVolume"}
    THEN send("", <<>>, Command("set_relative_volume", <<"-5">>), command_ok)
    ELSE KeyResult("", "", "", <<>>, <<>>)

\* The handler with result k ran as a callback of Tk: an exception that
\* leaves it is reported by the CallWrapper and the main loop goes on.
KeyPressHandled(key_symbol, k) ==
    keypress' = [keysym |-> key_symbol, raised |-> k.raised,
                 logged |-> k.logged, read |-> k.read,
                 queries |-> k.queries, commands |-> k.commands]

\* What the device does while a key is handled: its transport state,
\* whether it is muted, and whether it answers the query and the command
\* of the handler.
DeviceAnswer(state, muted, query_ok, command_ok) ==
    [state |-> state, muted |-> muted, query_ok |-> query_ok,
     command_ok |-> command_ok]

\* The answers that make a difference for the handler of the key: only
\* the toggle reads the transport state, only the mute key reads mute, and
\* a query that fails is not followed by a command.
DeviceAnswers(key_symbol) ==
    {a \in {DeviceAnswer(state, muted, query_ok, command_ok) :
                state \in TransportStates, muted \in BOOLEAN,
                query_ok \in BOOLEAN, command_ok \in BOOLEAN} :
        /\ (key_symbol \notin {"Return", "XF86AudioPlay"} \/ ~a.query_ok)
               => a.state = "STOPPED"
        /\ (key_symbol # "XF86AudioMute" \/ ~a.query_ok) => ~a.muted
        /\ (~isdigit(key_symbol)
            /\ key_symbol \notin {"Return", "XF86AudioPlay",
                                   "XF86AudioMute"}) => a.query_ok
        /\ ~a.query_ok => a.command_ok
        /\ key_symbol = "a" => a.command_ok}

\* A key press whose handler is not wrapped: an exception that leaves the
\* handler ends the main loop.
KeyPressUnwrapped(key_symbol, a) ==
    /\ uiRunning
    /\ KeyPressHandled(key_symbol,
           handle_key_press_event(key_symbol, favorites, a.state, a.muted,
                                  a.query_ok, a.command_ok))
    /\ uiRunning' = (keypress'.raised = "")
    /\ scheduled' = (IF keypress'.raised = "" THEN scheduled ELSE 0)
    /\ UNCHANGED <<queue, display, cache, max_width, max_height, brightness,
                   max_brightness, lastEvent, lastResolved, outcome, ops,
                   calls, application, resized, flattened, directory,
                   backlight, io, favorites, discovered>>

\* A key is pressed while the main loop runs, and the device gives the
\* answer a.
KeyPress(key_symbol, a) ==
    /\ uiRunning
    /\ KeyPressHandled(key_symbol,
           handle_key_press_event(key_symbol, favorites, a.state, a.muted,
                                  a.query_ok, a.command_ok))
    /\ UNCHANGED <<queue, display, cache, max_width, max_height, brightness,
                   max_brightness, scheduled, uiRunning, lastEvent,
                   lastResolved, outcome, ops, calls, application, resized,
                   flattened, directory, backlight, io, favorites,
                   discovered>>

\* The events of the device while the keys are followed.
KeyEvents ==
    {Event("PLAYING", TRUE, RelativeArt1), Event("STOPPED", FALSE, NoUri)}

\* The subscription thread puts one of the events into the queue; one
\* event at a time waits while the keys are followed.
KeyEnqueue(event) ==
    /\ event \in KeyEvents
    /\ queue = <<>>
    /\ Enqueue(event)

NextKeys ==
    \/ \E event \in KeyEvents : KeyEnqueue(event)
    \/ \E response \in Responses : ProcessAvTransportEventQueue(response)
    \/ \E key_symbol \in KeySymbols :
           \E a \in DeviceAnswers(key_symbol) : KeyPress(key_symbol, a)
    \/ HandleIntOrTermSignal

\* The user interface of a device with some favorites, before the first
\* tick and the first key press.
InitKeys ==
    /\ InitLabel
    /\ <<max_width, max_height>> = <<320, 320>>
    /\ brightness = max_brightness
    /\ SysfsBacklightBuilt
    /\ favorites \in FavoriteLists
    /\ keypress = NoKeyPress

\* The main loop with its two kinds of callbacks: ticks and key presses.
SpecKeys == InitKeys /\ [][NextKeys]_vars

\* ------------------------------------------------------------------------
\* Properties
\* ------------------------------------------------------------------------

Called(log, op) == \E i \in 1..Len(log) : log[i] = op

RECURSIVE Count(_, _)
Count(log, op) ==
    IF log = <<>> THEN 0
    ELSE (IF Head(log) = op THEN 1 ELSE 0) + Count(Tail(log), op)

\* The most recent tick took an event from the queue.
TickTookEvent == outcome \in {"processed", "raised"}

\* This step is a tick that takes the event at the head of the queue.
TickTakesHead == queue # <<>> /\ queue' = Tail(queue)

ResolvedKey(event) == build_album_art_full_uri(event.album_art_uri)

\* The calls of a lookup that misses the cache and succeeds.
FullPipeline == <<"urlopen", "open", "remove_alpha", "resize", "PhotoImage">>

SameRequest(a, b) ==
    /\ a.uri = b.uri
    /\ a.max_width = b.max_width
    /\ a.max_height = b.max_height

\* C1: for every event a tick takes from the queue, whatever its meta data
\* and whatever the outcome of the image lookup, the tick calls activate
\* when the transport state is PLAYING or TRANSITIONING and deactivate for
\* every other transport state.
C1_BacklightFollowsTransportState ==
    TickTookEvent =>
        IF lastEvent.transport_state \in {"PLAYING", "TRANSITIONING"}
        THEN Called(ops, "activate")
        ELSE Called(ops, "deactivate")

\* C2: every tick schedules exactly one next tick, as its last call, when
\* the queue was empty, when the event was processed and when processing
\* raised; while the main loop runs exactly one tick is pending.
C2_EveryTickReschedules ==
    /\ uiRunning => scheduled = 1
    /\ outcome # "none" =>
          /\ Count(ops, "after") = 1
          /\ ops[Len(ops)] = "after"

C2_Witness ==
    /\ outcome = "raised"
    /\ uiRunning
    /\ scheduled = 1
    /\ ops[Len(ops)] = "after"

\* C3: a tick that takes a PLAYING or TRANSITIONING event and whose image
\* lookup raises leaves the displayed art as it was before the tick.
C3_FailedResolutionKeepsArt ==
    [][(/\ TickTakesHead
        /\ Head(queue).transport_state \in PlayingStates
        /\ outcome' = "raised")
       => display' = display]_vars

C3_Witness ==
    /\ outcome = "raised"
    /\ lastEvent.transport_state \in PlayingStates
    /\ display # NoImage
    /\ display.uri # ResolvedKey(lastEvent)

\* C4: a tick that takes a PLAYING or TRANSITIONING event without an album
\* art reference leaves the displayed art and the cache as they were and
\* downloads nothing.
C4_NoArtReferenceKeepsArt ==
    [][(/\ TickTakesHead
        /\ Head(queue).transport_state \in PlayingStates
        /\ ~Head(queue).has_album_art_uri)
       => /\ display' = display
          /\ cache' = cache
          /\ ~Called(ops', "urlopen")]_vars

C4_Witness ==
    /\ outcome = "processed"
    /\ lastEvent.transport_state \in PlayingStates
    /\ ~lastEvent.has_album_art_uri
    /\ display # NoImage
    /\ cache # <<>>

\* C5: a tick that takes an event whose transport state is neither PLAYING
\* nor TRANSITIONING calls deactivate, shows no image and downloads nothing,
\* whatever meta data the event carries.
C5_NotPlayingClearsArt ==
    (TickTookEvent /\ lastEvent.transport_state \notin PlayingStates) =>
        /\ outcome = "processed"
        /\ ops = <<"deactivate", "config", "after">>
        /\ display = NoImage
        /\ ~Called(ops, "urlopen")

C5_Witness ==
    /\ outcome = "processed"
    /\ lastEvent = Event("PAUSED_PLAYBACK", TRUE, RelativeArt1)
    /\ display = NoImage
    /\ ops = <<"deactivate", "config", "after">>
    /\ cache # <<>>

\* C6 as stated: between ticks the display never shows an image whose key
\* differs from the resolved key of the most recently processed event.
C6_DisplayMatchesLastEvent ==
    (display # NoImage /\ lastEvent.has_album_art_uri) =>
        display.uri = ResolvedKey(lastEvent)

\* C6 as amended: between ticks the display never shows an image whose key
\* differs from the resolved key of the most recently processed event whose
\* image lookup succeeded.
C6_DisplayMatchesLastResolved ==
    display # NoImage => display.uri = lastResolved

C6_Witness ==
    /\ outcome = "raised"
    /\ lastEvent.has_album_art_uri
    /\ display # NoImage
    /\ display.uri = lastResolved
    /\ lastResolved # ResolvedKey(lastEvent)

\* C7: of two direct calls in succession with the same URI and box, the
\* first succeeding, the second does no I/O and returns the bitmap of the
\* first, so the pipeline runs once.
C7_SecondResolveIsCached ==
    \A i \in 1..(Len(calls) - 1) :
        (SameRequest(calls[i], calls[i + 1]) /\ calls[i].raised = "") =>
            /\ calls[i + 1].raised = ""
            /\ calls[i + 1].ops = <<>>
            /\ calls[i + 1].value = calls[i].value
            /\ calls[i].ops # <<>> =>
                  Count(calls[i].ops \o calls[i + 1].ops, "urlopen") = 1

C7_Witness ==
    \E i \in 1..(Len(calls) - 1) :
        /\ SameRequest(calls[i], calls[i + 1])
        /\ calls[i].ops = FullPipeline
        /\ calls[i + 1].ops = <<>>
        /\ calls[i + 1].value = calls[i].value
        /\ calls[i + 1].value # NoImage

\* C8: when a tick takes an event that resolves to the same key as the
\* event before it, and the art of that key is on display, the tick does
\* no download, builds no new bitmap and leaves the displayed image as it
\* is (config is handed the cached bitmap that is already shown).
C8_SameKeyIsNotResolvedAgain ==
    [][(/\ TickTakesHead
        /\ Head(queue).transport_state \in PlayingStates
        /\ Head(queue).has_album_art_uri
        /\ lastEvent.transport_state \in PlayingStates
        /\ lastEvent.has_album_art_uri
        /\ ResolvedKey(Head(queue)) = ResolvedKey(lastEvent)
        /\ display.uri = ResolvedKey(lastEvent))
       => /\ outcome' = "processed"
          /\ ~Called(ops', "urlopen")
          /\ ~Called(ops', "PhotoImage")
          /\ display' = display]_vars

\* The state between the two ticks: the art of the event before is on
\* display and the next event names the same image by another reference.
C8_Witness ==
    /\ outcome = "processed"
    /\ lastEvent.transport_state \in PlayingStates
    /\ lastEvent.has_album_art_uri
    /\ display.uri = ResolvedKey(lastEvent)
    /\ queue # <<>>
    /\ Head(queue).transport_state \in PlayingStates
    /\ Head(queue).has_album_art_uri
    /\ Head(queue).album_art_uri # lastEvent.album_art_uri
    /\ ResolvedKey(Head(queue)) = ResolvedKey(lastEvent)

\* C9: a failed direct call for URI B leaves the entry of a different URI
\* A in the cache (the following call for A does no I/O and returns the
\* bitmap of A) and stores nothing for B (the following call for B is not
\* answered from the cache: it runs the pipeline again).
C9_FailureKeepsOtherEntry ==
    /\ \A i \in 1..(Len(calls) - 2) :
          (/\ calls[i].raised = ""
           /\ calls[i + 1].raised # ""
           /\ calls[i + 1].uri # calls[i].uri
           /\ SameRequest(calls[i], calls[i + 2])) =>
              /\ calls[i + 2].raised = ""
              /\ calls[i + 2].ops = <<>>
              /\ calls[i + 2].value = calls[i].value
    /\ \A i \in 1..(Len(calls) - 1) :
          (/\ calls[i].raised # ""
           /\ SameRequest(calls[i], calls[i + 1])) =>
              /\ calls[i + 1].raised = "" => calls[i + 1].ops = FullPipeline
              /\ StartsWithSupportedPrefix(calls[i + 1].uri) =>
                    Count(calls[i + 1].ops, "urlopen") = 1
    /\ \A i \in 1..Len(calls) :
          calls[i].raised # "" =>
              ~CacheHit(cache, CacheKey(calls[i].uri, calls[i].max_width,
                                        calls[i].max_height))
              \/ \E j \in (i + 1)..Len(calls) :
                    SameRequest(calls[i], calls[j]) /\ calls[j].raised = ""

C9_Witness ==
    \E i \in 1..(Len(calls) - 2) :
        /\ calls[i].ops = FullPipeline
        /\ calls[i + 1].raised # ""
        /\ calls[i + 1].uri # calls[i].uri
        /\ SameRequest(calls[i], calls[i + 2])
        /\ calls[i + 2].ops = <<>>
        /\ calls[i + 2].value = calls[i].value

\* C10: the cache never holds more than one entry: of three successful
\* direct calls for A, B and A again, B a different URI, the second and the
\* third run the whole pipeline, and so does the first unless A was cached
\* before it.
C10_CacheHoldsOneEntry ==
    /\ Len(cache) <= 1
    /\ \A i \in 1..(Len(calls) - 2) :
          (/\ calls[i].raised = ""
           /\ calls[i + 1].raised = ""
           /\ calls[i + 2].raised = ""
           /\ calls[i + 1].uri # calls[i].uri
           /\ SameRequest(calls[i], calls[i + 2])) =>
              /\ calls[i + 1].ops = FullPipeline
              /\ calls[i + 2].ops = FullPipeline
              /\ calls[i].ops # <<>> =>
                    Count(calls[i].ops \o calls[i + 1].ops
                              \o calls[i + 2].ops, "urlopen") = 3

C10_Witness ==
    /\ Len(cache) = 1
    /\ \E i \in 1..(Len(calls) - 2) :
          /\ calls[i].ops = FullPipeline
          /\ calls[i + 1].ops = FullPipeline
          /\ calls[i + 2].ops = FullPipeline
          /\ calls[i + 1].uri # calls[i].uri
          /\ SameRequest(calls[i], calls[i + 2])
          /\ cache[1].value = calls[i + 2].value

\* A download of the package (urlopen) or of the script (requests.get).
Downloaded(log) == Called(log, "urlopen") \/ Called(log, "requests.get")

\* C11: clearing the art for an event that is not playing does not touch
\* the image cache: when art A was resolved and shown, a tick that follows
\* a not playing event and takes a playing event that resolves to A shows A
\* again without a download.
C11_ClearingKeepsCache ==
    [][(/\ TickTakesHead
        /\ Head(queue).transport_state \in PlayingStates
        /\ Head(queue).has_album_art_uri
        /\ ResolvedKey(Head(queue)) = lastResolved
        /\ TickTookEvent
        /\ lastEvent.transport_state \notin PlayingStates)
       => /\ outcome' = "processed"
          /\ ~Downloaded(ops')
          /\ display'.uri = lastResolved]_vars

\* The clearing tick has happened after A was shown, and the next event
\* resolves to A.
C11_Witness ==
    /\ outcome = "processed"
    /\ lastEvent.transport_state \notin PlayingStates
    /\ lastResolved # NoUri
    /\ display = NoImage
    /\ queue # <<>>
    /\ Head(queue).transport_state \in PlayingStates
    /\ Head(queue).has_album_art_uri
    /\ ResolvedKey(Head(queue)) = lastResolved

\* This step changes what the label has processed or shows.
ProcessingStep ==
    \/ lastEvent' # lastEvent
    \/ display' # display
    \/ cache' # cache
    \/ brightness' # brightness
    \/ (outcome' \in {"processed", "raised"} /\ outcome' # outcome)
    \/ (outcome' \in {"processed", "raised"} /\ ops' # ops)

\* C12: with the background thread enqueuing while the label ticks, every
\* step that removes an event from the queue is a tick that processes just
\* that event (its transport state is interpreted: the backlight is
\* switched, or processing raised), every step that processes an event
\* removes it from the queue, and enqueuing leaves the processing alone and
\* the queued events in their order.
C12_DequeuedEventsAreProcessedOnce ==
    [][/\ queue' # queue =>
             \/ /\ \E event \in Events : queue' = Append(queue, event)
                /\ ~ProcessingStep
             \/ /\ TickTakesHead
                /\ lastEvent' = Head(queue)
                /\ outcome' \in {"processed", "raised"}
                /\ \/ Called(ops', "activate")
                   \/ Called(ops', "deactivate")
                   \/ outcome' = "raised"
       /\ ProcessingStep =>
             /\ TickTakesHead
             /\ lastEvent' = Head(queue)]_vars

\* A tick has processed an event while the background thread filled the
\* queue.
C12_Witness ==
    /\ TickTookEvent
    /\ Len(queue) = MaxQueue
    /\ lastEvent # NoEvent

\* C13: a tick removes at most one event from the queue, however many are
\* queued; the events behind it stay queued in their order.
C13_TickRemovesAtMostOneEvent ==
    [][/\ Len(queue') >= Len(queue) - 1
       /\ Len(queue') < Len(queue) => queue' = Tail(queue)]_vars

\* A tick has processed an event and a different event is still queued.
C13_Witness ==
    /\ outcome = "processed"
    /\ queue # <<>>
    /\ Head(queue) # lastEvent
    /\ Len(queue) < MaxQueue

\* C14: a tick that finds the queue empty does not block (the tick can
\* always be taken) and leaves the displayed art, the cache and the
\* backlight as they were; it only schedules the next tick.
C14_EmptyTickChangesNothing ==
    /\ []((uiRunning /\ scheduled > 0 /\ queue = <<>>) =>
             ENABLED (\E response \in Responses :
                          ProcessAvTransportEventQueue(response)))
    /\ [][(uiRunning /\ uiRunning' /\ queue = <<>> /\ queue' = <<>>) =>
             /\ display' = display
             /\ cache' = cache
             /\ brightness' = brightness
             /\ lastEvent' = lastEvent
             /\ outcome' = "empty"
             /\ ops' = <<"after">>
             /\ scheduled' = scheduled]_vars

\* An empty tick has run while art is shown and the backlight is on.
C14_Witness ==
    /\ outcome = "empty"
    /\ ops = <<"after">>
    /\ display # NoImage
    /\ cache # <<>>
    /\ brightness = max_brightness
    /\ brightness > 0
    /\ scheduled = 1

\* The session was opened: the device is subscribed to.
SessionOpened == subscription # "none"

\* The session was ended in order: one unsubscribe, then one stop.
TornDown == teardown = <<"unsubscribe", "stop">>

C18_UnsupportedSchemeIsRejected ==
    /\ [](\A i \in 1..Len(calls) :
             calls[i].uri[1] \notin {"http:", "https:"} =>
                 /\ calls[i].raised = "ValueError"
                 /\ calls[i].ops = <<>>
                 /\ calls[i].value = NoImage)
    /\ [][(/\ calls' # calls
           /\ calls'[Len(calls')].uri[1] \notin {"http:", "https:"})
          => cache' = cache]_vars

\* A file URI was rejected while the image of another URI is cached.
C18_Witness ==
    /\ calls # <<>>
    /\ calls[Len(calls)].uri = FileArt
    /\ calls[Len(calls)].raised = "ValueError"
    /\ calls[Len(calls)].ops = <<>>
    /\ Len(cache) = 1
    /\ cache[1].key[1] # FileArt

\* The absolute value of an integer.
Abs(n) == IF n < 0 THEN -n ELSE n

\* C19: for every image size and every box of positive integers the
\* resized image fits into the box and fills it in one dimension: the new
\* width is at most the box's width, the new height at most the box's
\* height, and one of the two is equal.
C19_ResizedImageFitsBox ==
    resized # NoResize =>
        /\ resized.result.width <= resized.max_width
        /\ resized.result.height <= resized.max_height
        /\ \/ resized.result.width = resized.max_width
           \/ resized.result.height = resized.max_height

\* An image that is flatter than the box was resized: its width fills the
\* box and its height does not.
C19_Witness ==
    /\ resized # NoResize
    /\ resized.image.width > resized.max_width
    /\ resized.result.width = resized.max_width
    /\ resized.result.height < resized.max_height
    /\ resized.result.height > 0

\* C20: when max_width * height <= max_height * width the new size is
\* (max_width, round(height * max_width / width)), otherwise it is
\* (round(width * max_height / height), max_height); the rounded dimension
\* is at most one half away from the exact value that keeps the aspect
\* ratio; an image of 600x300 in a box of 240x320 becomes 240x120.
C20_ConstrainedDimensionFollowsTieBreak ==
    resized # NoResize =>
        /\ IF resized.max_width * resized.image.height
                  <= resized.max_height * resized.image.width
           THEN /\ resized.result.width = resized.max_width
                /\ 2 * Abs(resized.result.height * resized.image.width
                           - resized.image.height * resized.max_width)
                       <= resized.image.width
           ELSE /\ resized.result.height = resized.max_height
                /\ 2 * Abs(resized.result.width * resized.image.height
                           - resized.image.width * resized.max_height)
                       <= resized.image.height
        /\ (/\ resized.image.width = 600
            /\ resized.image.height = 300
            /\ resized.max_width = 240
            /\ resized.max_height = 320)
           => (resized.result.width = 240 /\ resized.result.height = 120)

\* The image of 600x300 was resized for the box of 240x320.
C20_Witness ==
    /\ resized.image.width = 600
    /\ resized.image.height = 300
    /\ resized.max_width = 240
    /\ resized.max_height = 320
    /\ resized.result.width = 240
    /\ resized.result.height = 120

\* C21: for every colour mode, flattening returns an image without an
\* alpha channel when the input has one, and the input itself when it has
\* none.
C21_FlatteningRemovesEveryAlphaChannel ==
    flattened # NoFlatten =>
        /\ HasAlphaChannel(flattened.image.mode) =>
               ~HasAlphaChannel(flattened.result.mode)
        /\ ~HasAlphaChannel(flattened.image.mode) =>
               flattened.result = flattened.image

\* An RGBA image is flattened to RGB of the same size, and an image of a
\* mode without an alpha band is returned as it is.
C21_RgbaIsFlattened ==
    flattened # NoFlatten =>
        /\ flattened.image.mode = "RGBA" =>
               flattened.result = [flattened.image EXCEPT !.mode = "RGB"]
        /\ ~HasAlphaChannel(flattened.image.mode) =>
               flattened.result = flattened.image

C21_Witness ==
    /\ flattened.image.mode = "LA"
    /\ flattened.result.mode = "LA"

\* C22: when the files work, the brightness file holds the max_brightness
\* value after activate and 0 after deactivate, whatever was called before,
\* and a call that repeats the one before it changes nothing.
C22_LastWriteWins ==
    (/\ backlight = "sysfs"
     /\ calls # <<>>
     /\ \A i \in 1..Len(calls) : calls[i].io = "ok") =>
        /\ calls[Len(calls)].op = "activate" => brightness = max_brightness
        /\ calls[Len(calls)].op = "deactivate" => brightness = 0
        /\ \A i \in 1..(Len(calls) - 1) :
              calls[i + 1].op = calls[i].op =>
                  calls[i + 1].brightness = calls[i + 1].before

C22_Witness ==
    /\ backlight = "sysfs"
    /\ Len(calls) = 3
    /\ \A i \in 1..3 : calls[i].io = "ok"
    /\ <<calls[1].op, calls[2].op, calls[3].op>> =
           <<"deactivate", "activate", "activate">>
    /\ calls[1].before = max_brightness
    /\ calls[1].brightness = 0
    /\ brightness = max_brightness

\* C23: no call of activate or deactivate changes the max_brightness file.
C23_MaxBrightnessIsNeverWritten ==
    [][max_brightness' = max_brightness]_vars

C23_Witness ==
    /\ backlight = "sysfs"
    /\ max_brightness \in MaxBrightnessValues
    /\ \E i, j \in 1..Len(calls) :
          /\ calls[i].op = "activate"
          /\ calls[i].brightness # calls[i].before
          /\ calls[j].op = "deactivate"
          /\ calls[j].brightness # calls[j].before

\* The label after a tick whose handler has result p.
SameLabel(p) ==
    /\ display' = p.display
    /\ cache' = p.cache
    /\ ops' = p.ops \o <<"after">>
    /\ outcome' = (IF p.raised # "" THEN "raised" ELSE "processed")

\* The step is a tick that took an event from the queue.
TickStep == queue # <<>> /\ queue' = Tail(queue)

\* The step ends as a tick with files that work ends for some download.
TickAsWithWorkingFiles ==
    \E response \in Responses :
        SameLabel(process_av_transport_event(display, cache, brightness,
            max_brightness, Head(queue), max_width, max_height, response))

\* C24: a tick in which the read of max_brightness or the write of
\* brightness fails raises nothing, leaves the brightness file as it was,
\* and ends as it ends when the files work: same art, same cache, same
\* calls, next tick scheduled.
C24_BacklightFailureIsSwallowed ==
    [][(TickStep /\ io' \in {"read_fails", "write_fails"}) =>
          /\ outcome' = "processed"
          /\ brightness' = brightness
          /\ scheduled' = scheduled
          /\ TickAsWithWorkingFiles]_vars

C24_Witness ==
    /\ io = "write_fails"
    /\ lastEvent = Event("PLAYING", TRUE, RelativeArt1)
    /\ outcome = "processed"
    /\ display # NoImage
    /\ Called(ops, "activate")
    /\ brightness = 0

\* C25: with no backlight directory no tick changes the brightness or the
\* max_brightness file, and every tick that takes an event ends as it ends
\* with a sysfs backlight: the art is updated and cleared all the same.
C25_DummyBacklightTouchesNothing ==
    [][backlight = "dummy" =>
          /\ brightness' = brightness
          /\ max_brightness' = max_brightness
          /\ TickStep => TickAsWithWorkingFiles]_vars

C25_Witness ==
    /\ backlight = "dummy"
    /\ ~directory.configured
    /\ lastEvent = Event("STOPPED", FALSE, NoUri)
    /\ ops = <<"deactivate", "config", "after">>
    /\ display = NoImage
    /\ cache # <<>>
    /\ brightness = max_brightness

\* C26: get_backlight raises for a configured directory whenever the
\* directory, brightness or max_brightness is absent or may not be
\* accessed, so a SysfsBacklight has both files present and accessible.
C26_BuiltBacklightHasAccessibleFiles ==
    /\ backlight = "sysfs" =>
          /\ directory.path = "directory"
          /\ directory.brightness = "file"
          /\ directory.max_brightness = "file"
    /\ (/\ backlight # "none"
        /\ directory.configured
        /\ \/ directory.path # "directory"
           \/ directory.brightness # "file"
           \/ directory.max_brightness # "file") =>
              backlight = "BacklightPathError"

\* get_backlight raises for a configured directory exactly when the
\* directory is no directory or one of the two paths is no regular file.
C26_BuiltBacklightHasFiles ==
    (backlight # "none" /\ directory.configured) =>
        (backlight = "sysfs" <=>
            /\ directory.path = "directory"
            /\ directory.brightness \in {"file", "protected"}
            /\ directory.max_brightness \in {"file", "protected"})

C26_Witness ==
    /\ backlight = "sysfs"
    /\ directory.max_brightness = "protected"
    /\ \E i \in 1..Len(calls) :
          calls[i].op = "activate" /\ calls[i].logged = "OSError"

CommandNames == [i \in 1..Len(keypress.commands) |-> keypress.commands[i].name]

\* C28: the toggle sends pause when the transport state it read from the
\* device is PLAYING and play for every other state, TRANSITIONING
\* included: one command, and never both.
C28_ToggleFollowsTransportState ==
    (/\ keypress.keysym \in {"Return", "XF86AudioPlay"}
     /\ keypress.read # "") =>
        /\ keypress.read \in TransportStates
        /\ keypress.read = "PLAYING" => CommandNames = <<"pause">>
        /\ keypress.read # "PLAYING" => CommandNames = <<"play">>

C28_Witness ==
    /\ keypress.keysym = "Return"
    /\ keypress.read = "TRANSITIONING"
    /\ CommandNames = <<"play">>
    /\ keypress.queries = <<"get_current_transport_info">>

\* The most recent key press asked for a favorite past the end of the list
\* that the device returned.
PastTheFavorites(k) ==
    /\ isdigit(k.keysym)
    /\ int(k.keysym) >= Len(favorites)
    /\ k.raised # "SoCoException"

\* C30: a digit key whose index is the length of the list of favorites or
\* more ends in an IndexError that Tk reports; no command is sent, the
\* main loop keeps running and the next tick stays scheduled.
C30_FavoritePastTheListIsReported ==
    [][(PastTheFavorites(keypress') /\ keypress' # keypress) =>
          /\ keypress'.raised = "IndexError"
          /\ keypress'.commands = <<>>
          /\ uiRunning' /\ uiRunning
          /\ scheduled' = scheduled
          /\ scheduled' > 0
          /\ queue' = queue]_vars

C30_Witness ==
    /\ Len(favorites) = 2
    /\ keypress.keysym = "2"
    /\ keypress.raised = "IndexError"
    /\ keypress.commands = <<>>
    /\ outcome = "processed"
    /\ lastEvent = Event("PLAYING", TRUE, RelativeArt1)
    /\ uiRunning
    /\ scheduled > 0

\* C29: when by_name finds no device of the name, a ClickException leaves
\* run_application at once and the run is over: no subscription and no
\* listener exist and none is torn down, no backlight is built or called,
\* no signal handler is installed, and the main loop never runs a tick.
C29_DeviceNotFoundEndsTheRun ==
    discovered = "None" =>
        /\ exception = "ClickException"
        /\ phase = "done"
        /\ subscription = "none"
        /\ listener = "none"
        /\ teardown = <<>>
        /\ backlight = "none"
        /\ calls = <<>>
        /\ io = ""
        /\ handler = "default"
        /\ ~uiRunning
        /\ scheduled = 0
        /\ outcome = "none"
        /\ queue = <<>>
        /\ ~ENABLED NextApplication

C29_Witness ==
    /\ discovered = "None"
    /\ exception = "ClickException"
    /\ phase = "done"
    /\ backlight = "none"
    /\ brightness = 0

\* The most recent key press asked for the favorite of index i, the device
\* returned its list, and the favorite is a DidlObject.
FavoritePlayed(i) ==
    /\ isdigit(keypress.keysym)
    /\ int(keypress.keysym) = i
    /\ i < Len(favorites)
    /\ favorites[i + 1].didl
    /\ ~(keypress.raised = "SoCoException" /\ keypress.commands = <<>>)

\* C31: playing a favorite without resource_meta_data sends one play_uri
\* with the URI of the favorite and no meta data; playing a favorite with
\* resource_meta_data sends one play_uri with the URI and the meta data.
C31_FavoriteIsPlayedWithOrWithoutMetaData ==
    \A i \in 0..(Len(favorites) - 1) :
        FavoritePlayed(i) =>
            /\ Len(keypress.commands) = 1
            /\ keypress.commands[1].name = "play_uri"
            /\ keypress.commands[1].arguments =
                   (IF favorites[i + 1].has_resource_meta_data
                    THEN <<favorites[i + 1].uri, "meta">>
                    ELSE <<favorites[i + 1].uri>>)

C31_Witness ==
    /\ FavoritePlayed(1)
    /\ ~favorites[2].has_resource_meta_data
    /\ keypress.commands = <<Command("play_uri", <<favorites[2].uri>>)>>
    /\ keypress.raised = ""

\* The operation of the device session that the handler of the most
\* recent key press called, told by what the operation asks and sends.
Operation ==
    IF keypress.queries = <<"get_sonos_favorites">>
    THEN "play_sonos_favorite_by_index"
    ELSE IF keypress.queries = <<"get_current_transport_info">>
    THEN "toggle_current_transport_state"
    ELSE IF keypress.queries = <<"mute">> THEN "mute"
    ELSE IF keypress.commands = <<>> THEN ""
    ELSE keypress.commands[1].name

\* The operation that belongs to a key symbol.
OperationOf(key_symbol) ==
    IF isdigit(key_symbol) THEN "play_sonos_favorite_by_index"
    ELSE IF key_symbol \in {"Left", "XF86AudioRewind"} THEN "previous"
    ELSE IF key_symbol \in {"Right", "XF86AudioForward"} THEN "next"
    ELSE IF key_symbol \in {"Return", "XF86AudioPlay"}
    THEN "toggle_current_transport_state"
    ELSE IF key_symbol = "XF86AudioStop" THEN "stop"
    ELSE IF key_symbol = "XF86AudioMute" THEN "mute"
    ELSE IF key_symbol \in {"Up", "XF86AudioRaiseVolume", "Down",
                            "XF86AudioLowerVolume"}
    THEN "set_relative_volume"
    ELSE ""

\* C32: the handler of a key press calls the one operation that belongs to
\* the key symbol, whatever the device and the label are doing, and none
\* for a key without an action; a digit asks for the favorite of its
\* index, Up and Down change the volume by +5 and -5; and at most one
\* command is sent to the device.
C32_KeySymbolDecidesTheOperation ==
    keypress # NoKeyPress =>
        /\ Operation = OperationOf(keypress.keysym)
        /\ Len(keypress.commands) <= 1
        /\ Len(keypress.queries) <= 1
        /\ OperationOf(keypress.keysym) = "" =>
               (keypress.raised = "" /\ keypress.commands = <<>>)
        /\ (isdigit(keypress.keysym) /\ keypress.commands # <<>>) =>
               /\ int(keypress.keysym) < Len(favorites)
               /\ keypress.commands[1].arguments[1] =
                      favorites[int(keypress.keysym) + 1].uri
        /\ keypress.keysym \in {"Up", "XF86AudioRaiseVolume"} =>
               keypress.commands =
                   <<Command("set_relative_volume", <<"+5">>)>>
        /\ keypress.keysym \in {"Down", "XF86AudioLowerVolume"} =>
               keypress.commands =
                   <<Command("set_relative_volume", <<"-5">>)>>

C32_Witness ==
    /\ keypress.keysym = "XF86AudioLowerVolume"
    /\ keypress.commands = <<Command("set_relative_volume", <<"-5">>)>>
    /\ keypress.raised = "SoCoException"
    /\ lastEvent = Event("STOPPED", FALSE, NoUri)

\* C33: the handler of a key press, whether the device answers or the call
\* raises, leaves the queue, the image of the label, the cache and the
\* backlight files as they are and the main loop running with its tick
\* scheduled; the image of the label only changes in a tick that took an
\* event from the queue.
C33_KeyPressLeavesTheLabelAlone ==
    [][/\ keypress' # keypress =>
             /\ UNCHANGED <<queue, display, cache, brightness,
                            max_brightness>>
             /\ uiRunning /\ uiRunning'
             /\ scheduled' = scheduled
       /\ display' # display => TickStep]_vars

C33_Witness ==
    /\ keypress.raised = "SoCoException"
    /\ keypress.commands # <<>>
    /\ display # NoImage
    /\ cache # <<>>
    /\ queue # <<>>
    /\ uiRunning
    /\ scheduled > 0

\* In the calls of a tick, activate comes once, after config and after
\* every call of the lookup.
ActivateComesLast(log) ==
    /\ Count(log, "activate") <= 1
    /\ \A i \in 1..Len(log) :
          log[i] = "activate" =>
              /\ \E j \in 1..(i - 1) : log[j] = "config"
              /\ \A k \in (i + 1)..Len(log) : log[k] = "after"

\* C34: in a tick that takes a PLAYING or TRANSITIONING event with an
\* album art reference, activate is called only after the image was looked
\* up and configured; when the lookup raises, activate is not called and
\* the brightness stays what the event before left.
C34_ActivateFollowsTheImage ==
    [][(/\ TickTakesHead
        /\ Head(queue).transport_state \in {"PLAYING", "TRANSITIONING"}
        /\ Head(queue).has_album_art_uri) =>
          /\ ActivateComesLast(ops')
          /\ ~Called(ops', "activate") =>
                 (outcome' = "raised" /\ brightness' = brightness)
          /\ Called(ops', "activate") => brightness' = max_brightness]_vars

C34_Witness ==
    /\ lastEvent = Event("TRANSITIONING", TRUE, AbsoluteArt1)
    /\ ops = FullPipeline \o <<"config", "activate", "after">>
    /\ display # NoImage
    /\ brightness = max_brightness

C36_ResizedImageIsNotEmpty ==
    resized # NoResize =>
        /\ resized.result.width >= 1
        /\ resized.result.height >= 1

\* The side of the resized image that is not the side of the box is 0
\* exactly when the image is more than twice as flat or as narrow as its
\* side of the box is long.
C36_EmptyOnlyForExtremeAspect ==
    resized # NoResize =>
        /\ resized.result.width >= 0
        /\ resized.result.height >= 0
        /\ resized.result.height = 0 <=>
               (/\ resized.result.width = resized.max_width
                /\ 2 * resized.image.height * resized.max_width
                       <= resized.image.width)
        /\ resized.result.width = 0 <=>
               (/\ resized.result.height = resized.max_height
                /\ 2 * resized.image.width * resized.max_height
                       <= resized.image.height)

C36_Witness ==
    /\ resized.image.width = 3
    /\ resized.image.height = 1
    /\ <<resized.max_width, resized.max_height>> = <<1, 1>>
    /\ resized.result.height = 0

\* The background thread puts no event into the queue in this step.
NothingEnqueued == Len(queue') <= Len(queue)

\* C37: events leave the queue in the order in which they were put into it
\* (an event is put behind the queued ones, a tick takes the one at the
\* front and processes it), and when the main loop keeps running and the
\* background thread stops enqueuing from some point on, the queue becomes
\* empty and stays empty, whatever the downloads of the events answer.
C37_QueueIsDrainedInOrder ==
    /\ [][queue' # queue =>
              \/ \E event \in Events : queue' = Append(queue, event)
              \/ /\ queue # <<>>
                 /\ queue' = Tail(queue)
                 /\ lastEvent' = Head(queue)
                 /\ TickTookEvent']_vars
    /\ ([]uiRunning /\ <>[][NothingEnqueued]_vars) => <>[](queue = <<>>)

\* The queue was full, its first event was processed and raised, and the
\* event behind it is at the front now.
C37_Witness ==
    /\ uiRunning
    /\ outcome = "raised"
    /\ lastEvent # NoEvent
    /\ Len(queue) = MaxQueue - 1
    /\ Head(queue) # lastEvent

\* C38: between ticks the label shows no image or the image of the one
\* entry that the cache of get_photo_image holds; an image that has left
\* the cache is not on display.
C38_DisplayedImageIsCached ==
    /\ Len(cache) <= 1
    /\ display # NoImage =>
          /\ Len(cache) = 1
          /\ display = cache[1].value

\* The label shows the cached image of an earlier track after an event with
\* other album art failed to resolve.
C38_Witness ==
    /\ display # NoImage
    /\ Len(cache) = 1
    /\ display = cache[1].value
    /\ outcome = "raised"
    /\ lastEvent.has_album_art_uri
    /\ build_album_art_full_uri(lastEvent.album_art_uri) # display.uri

====
